---------------------------- MODULE Spec2Model ----------------------------
(***************************************************************************)
(* A model of ganja.js (src/ganja.js): the Algebra generator (basis names, *)
(* the blade simplifier, the Cayley tables, the product matrices and the   *)
(* compiled element operations) and the inline translator.                 *)
(*                                                                         *)
(* Conventions.  JavaScript arrays are functions on 0..n-1.  A basis name  *)
(* ("1", "e1", "e12", ...) is the sequence of its digit characters after   *)
(* the leading "e" (<<>> for "1").  A Cayley-table string ("e12", "-e12",  *)
(* "1", "-1", "0") is a record [sg |-> -1|0|1, ds |-> digits].  A product  *)
(* matrix string ("0", "b[y]*this[x]", "-b[y]*this[x]") is a record        *)
(* [sg |-> -1|0|1, y |-> y, x |-> x].                                       *)
(***************************************************************************)
EXTENDS Integers, Sequences, FiniteSets, TLC

\* Bounds of the model.
MaxDim == 3
MaxCoef == 2
\* The number of generators of the wide signatures: the smallest for which a
\* generator name has two characters.
WideDim == 10
\* The largest number written in a literal.
MaxLit == 4

(***************************************************************************)
(* Small helpers for JavaScript values.                                    *)
(***************************************************************************)
Range(n) == 0 .. (n - 1)

Pow2(n) == 2 ^ n

SetMax(S) == CHOOSE m \in S : \A o \in S : o <= m

SetMin(S) == CHOOSE m \in S : \A o \in S : m <= o

\* An array is built once and then only read: Built(f) is the function f with
\* every value computed (f itself, as a value).
Built(f) == f @@ <<>>

\* Number.prototype.toString(10) of a non-negative integer, as digit characters.
RECURSIVE DecDigits(_)
DecDigits(v) == IF v < 10 THEN <<v>> ELSE DecDigits(v \div 10) \o <<v % 10>>

\* ToInt32(Number(s)) of a string of decimal digits (the "a|0" of the comparator):
\* the value modulo 2^32 kept as two 16-bit halves, read as a signed 32-bit integer.
RECURSIVE Int32Halves(_, _, _)
Int32Halves(ds, hi, lo) ==
  IF ds = <<>> THEN <<hi, lo>>
  ELSE LET l == lo * 10 + Head(ds)
       IN  Int32Halves(Tail(ds), (hi * 10 + (l \div 65536)) % 65536, l % 65536)

ToInt32(ds) ==
  LET h == Int32Halves(ds, 0, 0)
  IN  IF h[1] >= 32768 THEN (h[1] - 65536) * 65536 + h[2] ELSE h[1] * 65536 + h[2]

(***************************************************************************)
(* Basis names: ganja.js lines 73-77.                                      *)
(***************************************************************************)
\* ((1<<30)+xi).toString(2).slice(-tot||-1): the last tot binary digits of xi
\* (the last single digit, "0", when tot is 0), most significant first.
BinarySlice(xi, tot) ==
  LET w == IF tot = 0 THEN 1 ELSE tot
  IN  Built([ai \in 1 .. w |-> (xi \div Pow2(w - ai)) % 2])

\* .replace(/./g,(a,ai)=>a=='0'?'':ai+1-(r==0?0:1)): every 1 bit becomes the
\* decimal text of its position (counted from 1, or from 0 when r is not 0).
RECURSIVE ReplaceBits(_, _, _)
ReplaceBits(bits, ai, r) ==
  IF ai > Len(bits) THEN <<>>
  ELSE (IF bits[ai] = 0 THEN <<>> ELSE DecDigits((ai - 1) + 1 - (IF r = 0 THEN 0 ELSE 1)))
       \o ReplaceBits(bits, ai + 1, r)

\* Array.prototype.sort (stable) under a comparator that orders by a first number
\* and, on equal first numbers, by a second: es is a sequence of [k1, k2, v], and
\* elements the comparator calls equal keep their order (their index i decides).
SortBefore(x, y) ==
  \/ x.k1 < y.k1
  \/ x.k1 = y.k1 /\ x.k2 < y.k2
  \/ x.k1 = y.k1 /\ x.k2 = y.k2 /\ x.i < y.i

StableSort(es) ==
  LET n == Len(es)
      srt == SortSeq([i \in 1 .. n |-> [k1 |-> es[i].k1, k2 |-> es[i].k2, v |-> es[i].v, i |-> i]],
                     SortBefore)
  IN  Built([pos \in 1 .. n |-> srt[pos].v])

\* [...Array(2**tot)].map(...).sort(...): the sorted texts, each with the index xi
\* it was generated from (the comparator reads the text only).
sortedNames(tot, r) ==
  StableSort(Built([xi \in 1 .. Pow2(tot) |->
     LET nm == ReplaceBits(BinarySlice(xi - 1, tot), 1, r)
     IN  [k1 |-> Len(nm), k2 |-> ToInt32(nm), v |-> [nm |-> nm, xi |-> xi - 1]]]))

\* var basis = [...Array(2**tot)].map(...).sort(...).map(x=>x&&'e'+x||'1')
basis(tot, r) ==
  LET srt == sortedNames(tot, r)
  IN  Built([i \in Range(Pow2(tot)) |-> srt[i + 1].nm])

\* The generators a basis entry stands for: the 1 bits of the index it was made
\* from, numbered as the replace callback numbers them.
generators(tot, r) ==
  LET srt == sortedNames(tot, r)
      w == IF tot = 0 THEN 1 ELSE tot
  IN  Built([i \in Range(Pow2(tot)) |->
         {ai - (IF r = 0 THEN 0 ELSE 1) : ai \in {k \in 1 .. w : BinarySlice(srt[i + 1].xi, tot)[k] = 1}}])

\* The digit characters of a basis string: "1" is the digit 1, "e12" the digits 1, 2.
NameChars(nm) == IF nm = <<>> THEN <<1>> ELSE nm

\* var low = basis.join('').split('').filter(x=>x.match(/\d/)).sort()[0]*1
low(bs) ==
  SetMin(UNION {{NameChars(bs[i])[j] : j \in 1 .. Len(NameChars(bs[i]))} : i \in DOMAIN bs})

\* The length of a basis string: "1" has one character, "e12" three.
StrLen(nm) == IF nm = <<>> THEN 1 ELSE Len(nm) + 1

\* grades = basis.map(x=>x.length-1)
grades(bs) == Built([i \in DOMAIN bs |-> StrLen(bs[i]) - 1])

(***************************************************************************)
(* The blade simplifier: ganja.js lines 86-96.  An argument that may be    *)
(* undefined is a set: {n} for the number n, {} for undefined (so that a   *)
(* comparison with undefined or NaN is false, as in JavaScript).           *)
(***************************************************************************)
Label(sign, t) == [sg |-> sign, ds |-> IF sign = 0 THEN <<>> ELSE t]

\* The table string of a basis name.
NameLabel(nm) == [sg |-> 1, ds |-> nm]

\* if ((s[i]-low)>=(p+r)) sign*=-1; else if ((s[i]-low)<r) sign=0;
SquareSign(d, sign, p, r, lw) ==
  IF \E pv \in p : \E rv \in r : (d - lw) >= (pv + rv) THEN sign * (-1)
  ELSE IF \E c \in r : (d - lw) < c THEN 0
  ELSE sign

\* for (var i=0; i<l;) if (s[i]===s[i+1]) {...; i+=2; f=true; } else t.push(s[i++]);
RECURSIVE CancelPass(_, _, _, _, _, _, _, _)
CancelPass(s, i, sign, t, f, p, r, lw) ==
  IF i > Len(s) THEN [t |-> t, sign |-> sign, f |-> f]
  ELSE IF i < Len(s) /\ s[i] = s[i + 1]
       THEN CancelPass(s, i + 2, SquareSign(s[i], sign, p, r, lw), t, TRUE, p, r, lw)
       ELSE CancelPass(s, i + 1, sign, Append(t, s[i]), f, p, r, lw)

\* for (var i=0; i<t.length-1; i++) if (t[i]>t[i+1]) { swap; sign*=-1; f=true; break; }
SwapPass(st) ==
  LET t == st.t
      bad == {i \in 1 .. (Len(t) - 1) : t[i] > t[i + 1]}
  IN  IF bad = {} THEN st
      ELSE LET i == SetMin(bad)
           IN  [t |-> [t EXCEPT ![i] = t[i + 1], ![i + 1] = t[i]],
                sign |-> st.sign * (-1), f |-> TRUE]

\* while (f) { f=false; ...; if (f) { s=t; t=[]; l=s.length; } }
RECURSIVE SimplifyLoop(_, _, _, _, _)
SimplifyLoop(s, sign, p, r, lw) ==
  LET st == SwapPass(CancelPass(s, 1, sign, <<>>, FALSE, p, r, lw))
  IN  IF st.f THEN SimplifyLoop(st.t, st.sign, p, r, lw) ELSE st

\* (brm&&brm[ret])||(brm&&brm['-'+ret]&&'-'+brm['-'+ret])||ret, where the remap
\* dictionary brm is a function from table strings to basis names (the empty
\* function while it is undefined).
Remap(rm, ret) ==
  IF ret \in DOMAIN rm THEN NameLabel(rm[ret])
  ELSE IF ret.sg = 1 /\ [ret EXCEPT !.sg = -1] \in DOMAIN rm
       THEN [sg |-> -1, ds |-> rm[[ret EXCEPT !.sg = -1]]]
  ELSE ret

\* var simplify = (s,p,q,r)=>{...}; s is the digit text of the concatenation.
simplify(s, p, q, r, lw, rm) ==
  LET st == SimplifyLoop(s, 1, p, r, lw)
  IN  Remap(rm, Label(st.sign, st.t))

\* An order of the table strings, by which the keys of a dictionary are arranged
\* (an object finds a key by its text, whatever the arrangement).
LabelBefore(x, y) ==
  IF x.sg /= y.sg THEN x.sg < y.sg
  ELSE IF Len(x.ds) /= Len(y.ds) THEN Len(x.ds) < Len(y.ds)
  ELSE LET d == {i \in 1 .. Len(x.ds) : x.ds[i] /= y.ds[i]}
       IN  d /= {} /\ x.ds[SetMin(d)] < y.ds[SetMin(d)]

\* The assignments ret[key] = basis[i] by key, and in the order of i under one key.
EntryBefore(x, y) == LabelBefore(x.key, y.key) \/ (x.key = y.key /\ x.i < y.i)

\* The last position among lo .. hi of the arranged assignments with a key not after k.
RECURSIVE LastAt(_, _, _, _)
LastAt(srt, k, lo, hi) ==
  IF lo >= hi THEN lo
  ELSE LET mid == (lo + hi + 1) \div 2
       IN  IF LabelBefore(k, srt[mid].key) THEN LastAt(srt, k, lo, mid - 1)
           ELSE LastAt(srt, k, mid, hi)

\* brm=(x=>{ var ret={}; for (var i in basis)
\*   ret[basis[i]=='1'?'1':simplify(basis[i],p,q,r)] = basis[i]; return ret; })(basis)
\* A later basis name with the same key overwrites an earlier one.
brmKey(nm, p, q, r, lw) ==
  IF nm = <<>> THEN NameLabel(<<>>) ELSE simplify(nm, {p}, {q}, {r}, lw, <<>>)

\* The dictionary of the arranged assignments: each key with its last value.
brmOf(bs, srt) ==
  Built([k \in {srt[j].key : j \in DOMAIN srt} |-> bs[srt[LastAt(srt, k, 1, Len(srt))].i]])

\* The assignments ret[key] = basis[i], arranged.
brmEntries(bs, p, q, r, lw) ==
  SortSeq([i \in 1 .. Cardinality(DOMAIN bs) |->
             [key |-> brmKey(bs[i - 1], p, q, r, lw), i |-> i - 1]], EntryBefore)

brm(bs, p, q, r) == brmOf(bs, brmEntries(bs, p, q, r, low(bs)))

(***************************************************************************)
(* The Cayley tables and the metric: ganja.js lines 106-112.  A table is a *)
(* function of the two blade indices.                                      *)
(***************************************************************************)
\* basis.map(x=>basis.map(y=>(x==1)?y:(y==1)?x:simplify(x+y,p,q,r)))
mulTable(bs, p, q, r, lw, rm) ==
  [xi \in DOMAIN bs |-> [yi \in DOMAIN bs |->
     IF bs[xi] = <<>> THEN NameLabel(bs[yi])
     ELSE IF bs[yi] = <<>> THEN NameLabel(bs[xi])
     ELSE simplify(bs[xi] \o bs[yi], {p}, {q}, {r}, lw, rm)]]

\* basis.map(x=>basis.map(y=>(x==1)?y:(y==1)?x:simplify(x+y,p+q+r,0,0)))
mulTable2(bs, p, q, r, lw, rm) ==
  [xi \in DOMAIN bs |-> [yi \in DOMAIN bs |->
     IF bs[xi] = <<>> THEN NameLabel(bs[yi])
     ELSE IF bs[yi] = <<>> THEN NameLabel(bs[xi])
     ELSE simplify(bs[xi] \o bs[yi], {p + q + r}, {0}, {0}, lw, rm)]]

\* y.replace(/^-/,'')
Unsigned(l) == IF l.sg = -1 THEN [l EXCEPT !.sg = 1] ELSE l

\* mulTable.map(x=>x.map(y=>y.replace(/^-/,'')))
UnsignedTable(tbl) ==
  [xi \in DOMAIN tbl |-> [yi \in DOMAIN tbl[xi] |-> Unsigned(tbl[xi][yi])]]

\* string|0: "1" is 1, "-1" is -1, and "0" and every blade name are 0.
LabelToInt(l) == IF l.ds = <<>> THEN l.sg ELSE 0

\* var metric = basis.map((x,xi)=>mulTable[xi][xi]|0)
metric(tbl) == [xi \in DOMAIN tbl |-> LabelToInt(tbl[xi][xi])]

(***************************************************************************)
(* The dualization remap: ganja.js lines 99-103.                           *)
(***************************************************************************)
\* The value of a string of decimal digits (unary plus); "" is 0.
RECURSIVE DecValue(_, _)
DecValue(ds, acc) == IF ds = <<>> THEN acc ELSE DecValue(Tail(ds), acc * 10 + Head(ds))

\* a.slice(1).split('').sort().join(''): the digits in ascending order.
SortedDigits(nm) ==
  StableSort(Built([i \in 1 .. Len(nm) |-> [k1 |-> nm[i], k2 |-> 0, v |-> nm[i]]]))

\* basis.map((a,i)=>{a,i}).sort(by length, then by the number of the sorted digits)
\*      .map(x=>x.i).reverse()
drm(bs) ==
  LET n == Cardinality(DOMAIN bs)
      srt == StableSort(Built([i \in 1 .. n |->
               [k1 |-> StrLen(bs[i - 1]), k2 |-> DecValue(SortedDigits(bs[i - 1]), 0), v |-> i - 1]]))
  IN  Built([i \in Range(n) |-> srt[n - i]])

\* drm.map((x,i)=>(x==0||i==0)?1:simplify(basis[x]+basis[i])[0]=='-'?-1:1)
drms(bs, dr, lw, rm) ==
  Built([i \in DOMAIN dr |->
     IF dr[i] = 0 \/ i = 0 THEN 1
     ELSE IF simplify(bs[dr[i]] \o bs[i], {}, {}, {}, lw, rm).sg = -1 THEN -1 ELSE 1])

(***************************************************************************)
(* The product matrices: ganja.js lines 116-127.                           *)
(***************************************************************************)
\* The matrix strings: '0', and ('' or '-')+'b['+yi+']*this['+xi+']'.
ZeroTerm == [sg |-> 0, y |-> 0, x |-> 0]

Term(l, yi, xi) == IF l.sg = 0 THEN ZeroTerm ELSE [sg |-> l.sg, y |-> yi, x |-> xi]

\* n = mulTable[xi][yi].replace(/^-/,''); if (n==0) n = mulTable2[xi][yi].replace(/^-/,'')
gpoKey(mt, mt2, xi, yi) ==
  IF Unsigned(mt[xi][yi]).sg = 0 THEN Unsigned(mt2[xi][yi]) ELSE Unsigned(mt[xi][yi])

\* n2 = mulTable2[xi][yi].replace(/^-/,'')
opoKey(mt2, xi, yi) == Unsigned(mt2[xi][yi])

\* gpo[o].forEach(([xi,yi])=>{ gp[oi][xi]=(mulTable[xi][yi]=='0')?'0':sign+'b[yi]*this[xi]' })
\* on a matrix of '0': the last pair of gpo[o] with first index xi decides the cell.
gp(bs, mt, mt2) ==
  [oi \in DOMAIN bs |-> [xi \in DOMAIN bs |->
     LET ys == {yi \in DOMAIN bs : gpoKey(mt, mt2, xi, yi) = NameLabel(bs[oi])}
     IN  IF ys = {} THEN ZeroTerm ELSE Term(mt[xi][SetMax(ys)], SetMax(ys), xi)]]

Abs(n) == IF n < 0 THEN 0 - n ELSE n

\* A contraction matrix that keeps the entries of either grade difference.
cpAbs(bs, gr, mt, mt2) ==
  [oi \in DOMAIN bs |-> [xi \in DOMAIN bs |->
     LET ys == {yi \in DOMAIN bs : gpoKey(mt, mt2, xi, yi) = NameLabel(bs[oi])}
     IN  IF ys = {} THEN ZeroTerm
         ELSE IF gr[oi] = Abs(gr[SetMax(ys)] - gr[xi])
              THEN Term(mt[xi][SetMax(ys)], SetMax(ys), xi)
              ELSE ZeroTerm]]

\* cp[oi][xi]=(grades[oi]==grades[yi]-grades[xi])?gp[oi][xi]:'0'
cp(bs, gr, mt, mt2) ==
  [oi \in DOMAIN bs |-> [xi \in DOMAIN bs |->
     LET ys == {yi \in DOMAIN bs : gpoKey(mt, mt2, xi, yi) = NameLabel(bs[oi])}
     IN  IF ys = {} THEN ZeroTerm
         ELSE IF gr[oi] = gr[SetMax(ys)] - gr[xi]
              THEN Term(mt[xi][SetMax(ys)], SetMax(ys), xi)
              ELSE ZeroTerm]]

\* opo[o].forEach(([xi,yi])=>op[oi][xi]=(grades[oi]==grades[xi]+grades[yi])
\*   ?((mulTable2[xi][yi]=='0')?'0':sign+'b[yi]*this[xi]'):'0')
op(bs, gr, mt2) ==
  [oi \in DOMAIN bs |-> [xi \in DOMAIN bs |->
     LET ys == {yi \in DOMAIN bs : opoKey(mt2, xi, yi) = NameLabel(bs[oi])}
     IN  IF ys = {} THEN ZeroTerm
         ELSE IF gr[oi] = gr[xi] + gr[SetMax(ys)]
              THEN Term(mt2[xi][SetMax(ys)], SetMax(ys), xi)
              ELSE ZeroTerm]]

\* 'res['+drm[ri]+']=' + op[ri] with every index [i] rewritten to [drm[i]]:
\* the rows of the generated Vee (its targets are drm[ri]).
veeRows(opm, dr) ==
  [ri \in DOMAIN opm |-> [xi \in DOMAIN opm[ri] |->
     LET c == opm[ri][xi]
     IN  IF c.sg = 0 THEN c ELSE [sg |-> c.sg, y |-> dr[c.y], x |-> dr[c.x]]]]

(***************************************************************************)
(* The generated class: ganja.js lines 59-127 build the names and the      *)
(* tables once, and every Element method reads them from the closure.      *)
(***************************************************************************)
\* Lines 59-96: the signature, the basis names, low, grades and brm.
NamesOf(p, q, r, bs) ==
  [p |-> p, q |-> q, r |-> r, tot |-> p + q + r, basis |-> bs,
   generators |-> generators(p + q + r, r), low |-> low(bs), grades |-> grades(bs),
   brm |-> brm(bs, p, q, r)]

Names(p, q, r) == NamesOf(p, q, r, basis(p + q + r, r))

\* A table whose cells are all computed, as the arrays of the closure are.
BuiltTable(t) == Built([i \in DOMAIN t |-> Built(t[i])])

\* Lines 116-127 and 725: the product matrices, on the tables they are read from.
Products(N, dr, mt, mt2, opm) ==
  [p |-> N.p, q |-> N.q, r |-> N.r, tot |-> N.tot, basis |-> N.basis,
   generators |-> N.generators, low |-> N.low, grades |-> N.grades,
   brm |-> N.brm, drm |-> dr, drms |-> drms(N.basis, dr, N.low, N.brm),
   mulTable |-> mt, mulTable2 |-> mt2, mulTableb |-> BuiltTable(UnsignedTable(mt)),
   metric |-> Built(metric(mt)),
   gp |-> BuiltTable(gp(N.basis, mt, mt2)), cp |-> BuiltTable(cp(N.basis, N.grades, mt, mt2)),
   op |-> opm, vee |-> BuiltTable(veeRows(opm, dr))]

\* Lines 99-109: drm and the Cayley tables, on the names.
Tables(N, dr, mt, mt2) ==
  Products(N, dr, mt, mt2, BuiltTable(op(N.basis, N.grades, mt2)))

Closure(N) ==
  Tables(N, drm(N.basis),
         BuiltTable(mulTable(N.basis, N.p, N.q, N.r, N.low, N.brm)),
         BuiltTable(mulTable2(N.basis, N.p, N.q, N.r, N.low, N.brm)))

Algebra(p, q, r) == Closure(Names(p, q, r))

(***************************************************************************)
(* The compiled element methods: ganja.js lines 720-725.  Each is a list   *)
(* of assignments res[i]=... run in order; res is a new element unless the *)
(* caller passes one, and then it may be the same object as this or as b   *)
(* (al.t: res is this, al.b: res is b), so that a write is seen by the     *)
(* later reads.  Coefficients are integers, which a typed array stores     *)
(* exactly.                                                                *)
(***************************************************************************)
\* new this.constructor(): a typed array of basis.length zeros.
NewElement(A) == Built([i \in DOMAIN A.basis |-> 0])

NoAlias == [t |-> FALSE, b |-> FALSE]

\* One matrix cell in a generated assignment: '0', or sign b[y]*this[x].
TermValue(c, tv, bv) == IF c.sg = 0 THEN 0 ELSE c.sg * (bv[c.y] * tv[c.x])

\* r.join('+'): the cells of one matrix row, added from left to right.
RECURSIVE RowValue(_, _, _, _)
RowValue(row, xi, tv, bv) ==
  IF xi < 0 THEN 0 ELSE RowValue(row, xi - 1, tv, bv) + TermValue(row[xi], tv, bv)

\* The assignments res[target[ri]] = <row ri>, for ri = 0, 1, ... in order.
RECURSIVE RunRows(_, _, _, _, _, _, _)
RunRows(rows, target, ri, tv, bv, rv, al) ==
  IF ri \notin DOMAIN rows THEN rv
  ELSE LET nrv == [rv EXCEPT ![target[ri]] = RowValue(rows[ri], Cardinality(DOMAIN rows) - 1, tv, bv)]
       IN  RunRows(rows, target, ri + 1,
                   IF al.t THEN nrv ELSE tv, IF al.b THEN nrv ELSE bv, nrv, al)

Identity(A) == Built([i \in DOMAIN A.basis |-> i])

\* res[xi]=b[xi]+this[xi] (sgn = 1) and res[xi]=this[xi]-b[xi] (sgn = -1), in order.
RECURSIVE RunSum(_, _, _, _, _, _, _)
RunSum(n, xi, sgn, tv, bv, rv, al) ==
  IF xi >= n THEN rv
  ELSE LET nrv == [rv EXCEPT ![xi] = IF sgn = 1 THEN bv[xi] + tv[xi] ELSE tv[xi] - bv[xi]]
       IN  RunSum(n, xi + 1, sgn, IF al.t THEN nrv ELSE tv, IF al.b THEN nrv ELSE bv, nrv, al)

\* res.prototype.Add
AddInto(A, tv, bv, rv, al) == RunSum(Cardinality(DOMAIN A.basis), 0, 1, tv, bv, rv, al)

\* res.prototype.Sub
SubInto(A, tv, bv, rv, al) == RunSum(Cardinality(DOMAIN A.basis), 0, -1, tv, bv, rv, al)

\* res.prototype.Mul
MulInto(A, tv, bv, rv, al) == RunRows(A.gp, Identity(A), 0, tv, bv, rv, al)

\* res.prototype.Dot
DotInto(A, tv, bv, rv, al) == RunRows(A.cp, Identity(A), 0, tv, bv, rv, al)

\* res.prototype.Wedge
WedgeInto(A, tv, bv, rv, al) == RunRows(A.op, Identity(A), 0, tv, bv, rv, al)

\* res.prototype.Vee
VeeInto(A, tv, bv, rv, al) == RunRows(A.vee, A.drm, 0, tv, bv, rv, al)

\* The methods called without res.
Add(A, tv, bv) == AddInto(A, tv, bv, NewElement(A), NoAlias)
Sub(A, tv, bv) == SubInto(A, tv, bv, NewElement(A), NoAlias)
Mul(A, tv, bv) == MulInto(A, tv, bv, NewElement(A), NoAlias)
Dot(A, tv, bv) == DotInto(A, tv, bv, NewElement(A), NoAlias)
Wedge(A, tv, bv) == WedgeInto(A, tv, bv, NewElement(A), NoAlias)
Vee(A, tv, bv) == VeeInto(A, tv, bv, NewElement(A), NoAlias)

\* A Dual that remaps by drm and drms in every signature.
DualByRemap(A, tv) == Built([i \in DOMAIN tv |-> tv[A.drm[i]] * A.drms[i]])

\* get Dual: if (r) return this.map((x,i,a)=>a[drm[i]]*drms[i]);
\*           var res = new this.constructor(); res[res.length-1]=1; return res.Mul(this);
Dual(A, tv) ==
  IF A.r /= 0 THEN Built([i \in DOMAIN tv |-> tv[A.drm[i]] * A.drms[i]])
  ELSE Mul(A, [NewElement(A) EXCEPT ![Cardinality(DOMAIN A.basis) - 1] = 1], tv)

\* get Negative: res[i] = -this[i]
Negative(A, tv) == Built([i \in DOMAIN tv |-> 0 - tv[i]])

\* The sign tables [1,1,-1,-1], [1,-1,1,-1] and [1,-1,-1,1], read at grades[i]%4.
GradeSign(tbl, g) == tbl[(g % 4) + 1]

\* get Reverse: res[i] = this[i]*[1,1,-1,-1][grades[i]%4]
Reverse(A, tv) == Built([i \in DOMAIN tv |-> tv[i] * GradeSign(<<1, 1, -1, -1>>, A.grades[i])])

\* get Involute: res[i] = this[i]*[1,-1,1,-1][grades[i]%4]
Involute(A, tv) == Built([i \in DOMAIN tv |-> tv[i] * GradeSign(<<1, -1, 1, -1>>, A.grades[i])])

\* get Conjugate: res[i] = this[i]*[1,-1,-1,1][grades[i]%4]
Conjugate(A, tv) == Built([i \in DOMAIN tv |-> tv[i] * GradeSign(<<1, -1, -1, 1>>, A.grades[i])])

\* Map(a,b): res[i] = this[i]*(((a===grades[i])||(b===grades[i]))?-1:1)
Map(A, tv, g1, g2) ==
  Built([i \in DOMAIN tv |-> tv[i] * (IF g1 = A.grades[i] \/ g2 = A.grades[i] THEN -1 ELSE 1)])

\* static Coeff(): res[arguments[i++]]=arguments[i++] for every pair; an index
\* outside the array sets no coefficient.
RECURSIVE CoeffFill(_, _, _)
CoeffFill(res, args, i) ==
  IF i > Len(args) THEN res
  ELSE CoeffFill(IF args[i] \in DOMAIN res THEN [res EXCEPT ![args[i]] = args[i + 1]] ELSE res,
                 args, i + 2)

Coeff(A, args) == CoeffFill(NewElement(A), args, 1)

\* static Scalar(x)
Scalar(A, x) == [NewElement(A) EXCEPT ![0] = x]

(***************************************************************************)
(* JavaScript values, and the static operators the translator emits calls  *)
(* of: ganja.js lines 162-223.  The values are numbers and elements; the   *)
(* array, string and function cases of the operators need other values.    *)
(***************************************************************************)
Undefined == [ty |-> "undefined"]
Num(v) == [ty |-> "number", v |-> v]
El(c) == [ty |-> "Element", c |-> c]
IsEl(v) == v.ty = "Element"

\* What eval or a call throws.
Thrown(name) == [ty |-> "throw", name |-> name]

(***************************************************************************)
(* The Inverse getter: ganja.js lines 745-752.  The arithmetic is exact:   *)
(* the element x.Mul(Scalar(1/n)) is held as the coefficients c of         *)
(* x.Mul(Scalar(1)) over the number d = n, and d = 0 stands for the        *)
(* coefficients the division by zero gives (1/0 is Infinity, and the       *)
(* products with it are Infinity, -Infinity and NaN).                      *)
(***************************************************************************)
Over(c, d) == [ty |-> "ElementOver", c |-> c, d |-> d]

\* x.Mul(this.constructor.Scalar(1/n[0]))
MulReciprocal(A, x, n) == Over(Mul(A, x, Scalar(A, 1)), n[0])

\* this.Mul(this.Conjugate).Mul(this.Involute).Mul(this.Reverse)
MulCIR(A, tv) == Mul(A, Mul(A, Mul(A, tv, Conjugate(A, tv)), Involute(A, tv)), Reverse(A, tv))

\* this.Conjugate.Mul(this.Involute).Mul(this.Reverse)
CIR(A, tv) == Mul(A, Mul(A, Conjugate(A, tv), Involute(A, tv)), Reverse(A, tv))

\* the case tot==4, with n = this.Mul(this.Conjugate)
Inverse4(A, tv, n) ==
  MulReciprocal(A, Mul(A, Conjugate(A, tv), Map(A, n, 3, 4)), Mul(A, n, Map(A, n, 3, 4)))

\* the last case, with n = this.Mul(this.Conjugate).Mul(this.Involute).Mul(this.Reverse)
Inverse5(A, tv, n) ==
  MulReciprocal(A, Mul(A, CIR(A, tv), Map(A, n, 1, 4)), Mul(A, n, Map(A, n, 1, 4)))

\* get Inverse.  (With tot==0 the operand of new is the static method Scalar,
\* which is no constructor.)
Inverse(A, tv) ==
  IF A.tot = 0 THEN Thrown("TypeError")
  ELSE IF A.tot = 1 THEN MulReciprocal(A, Involute(A, tv), Mul(A, tv, Involute(A, tv)))
  ELSE IF A.tot = 2 THEN MulReciprocal(A, Conjugate(A, tv), Mul(A, tv, Conjugate(A, tv)))
  ELSE IF A.tot = 3
       THEN MulReciprocal(A, Mul(A, Mul(A, Reverse(A, tv), Involute(A, tv)), Conjugate(A, tv)),
                          MulCIR(A, tv))
  ELSE IF A.tot = 4 THEN Inverse4(A, tv, Mul(A, tv, Conjugate(A, tv)))
  ELSE Inverse5(A, tv, MulCIR(A, tv))

\* this.Mul(x) for the value x of a getter
MulValue(A, tv, x) == IF x.ty = "ElementOver" THEN Over(Mul(A, tv, x.c), x.d) ELSE x

\* Div(b,res) { return this.Mul(b.Inverse,res); }
Div(A, tv, bv) == MulValue(A, tv, Inverse(A, bv))

\* static toEl(x): if (!(x instanceof Element)) x=Element.Scalar(x)
toEl(A, x) == IF IsEl(x) THEN x.c ELSE Scalar(A, x.v)

\* ToNumber of a value: a typed array converts through its text, which is a
\* number only for an array of one coefficient ("5", and "3,2" is NaN).
\* NaN is the empty set.
ToNumber(x) ==
  IF IsEl(x) THEN (IF Cardinality(DOMAIN x.c) = 1 THEN {x.c[0]} ELSE {}) ELSE {x.v}

\* static Add(a,b,res): if (!(a instanceof Element || b instanceof Element)) return a+b;
\*                      a=Element.toEl(a); b=Element.toEl(b); return a.Add(b,res);
StaticAdd(A, x, y) ==
  IF ~(IsEl(x) \/ IsEl(y)) THEN Num(x.v + y.v)
  ELSE El(Add(A, toEl(A, x), toEl(A, y)))

\* static Dot(a,b,res): if (!(a instanceof Element || b instanceof Element)) return a*b;
\*                      a=Element.toEl(a);b=Element.toEl(b); return a.Dot(b,res);
StaticDot(A, x, y) ==
  IF ~(IsEl(x) \/ IsEl(y)) THEN Num(x.v * y.v)
  ELSE El(Dot(A, toEl(A, x), toEl(A, y)))

\* A static Mul that calls through to the contraction instead of the geometric
\* product.
StaticMulContracts(A, x, y) ==
  IF ToNumber(x) /= {} /\ ToNumber(y) /= {}
  THEN Num((CHOOSE n \in ToNumber(x) : TRUE) * (CHOOSE n \in ToNumber(y) : TRUE))
  ELSE El(Dot(A, toEl(A, x), toEl(A, y)))

\* static Mul(a,b,res): var r=a*b; if (!isNaN(r)) return r;
\*                      a=Element.toEl(a); b=Element.toEl(b); return a.Mul(b,res);
StaticMul(A, x, y) ==
  IF ToNumber(x) /= {} /\ ToNumber(y) /= {}
  THEN Num((CHOOSE n \in ToNumber(x) : TRUE) * (CHOOSE n \in ToNumber(y) : TRUE))
  ELSE El(Mul(A, toEl(A, x), toEl(A, y)))

(***************************************************************************)
(* Source text: ganja.js lines 634-642.  A text is a sequence of            *)
(* characters.  The texts are over SourceChars, which has the double quote  *)
(* only of the three quotes, and no dot, no backslash and no line end: the *)
(* other string alternatives, the line comment and the fraction            *)
(* alternatives of the token patterns match nothing in them.  It has no    *)
(* square bracket, tilde or exclamation mark either: the branches of       *)
(* translate for them are not taken.                                       *)
(***************************************************************************)
DigitChars == <<"0", "1", "2", "3", "4", "5", "6", "7", "8", "9">>

Digits == {DigitChars[i] : i \in 1 .. 10}

\* The value of a digit character, and the character of a digit.
DigitVal(ch) == (CHOOSE i \in 1 .. 10 : DigitChars[i] = ch) - 1

DigitChar(d) == DigitChars[d + 1]

Letters ==
  {"a", "b", "c", "d", "e", "f", "g", "h", "i", "j", "k", "l", "m", "n", "o", "p", "q",
   "r", "s", "t", "u", "v", "w", "x", "y", "z", "A", "B", "C", "D", "E", "F", "G", "H",
   "I", "J", "K", "L", "M", "N", "O", "P", "Q", "R", "S", "T", "U", "V", "W", "X", "Y", "Z"}

\* [A-Za-z0-9_]
IdChars == Letters \cup Digits \cup {"_"}

\* \s among the source characters.
Spaces == {" "}

SourceChars ==
  IdChars \cup Spaces \cup
  {"(", ")", "{", "}", ";", ",", "<", ">", "+", "-", "*", "/", "%", "|", "&", "^", "?", ":",
   "=", "\"", "[", "]", "!", "~"}

\* txt.slice(n)
Drop(txt, n) == SubSeq(txt, n + 1, Len(txt))

\* txt starts with the characters pre.
StartsWith(txt, pre) == Len(pre) <= Len(txt) /\ SubSeq(txt, 1, Len(pre)) = pre

\* The length of the longest run of characters of S in txt from position i on.
RECURSIVE RunLen(_, _, _)
RunLen(txt, i, S) == IF i <= Len(txt) /\ txt[i] \in S THEN 1 + RunLen(txt, i + 1, S) ELSE 0

\* The decimal text of an integer (String(n)).
IntText(n) ==
  LET ds == DecDigits(IF n < 0 THEN 0 - n ELSE n)
      cs == [i \in 1 .. Len(ds) |-> DigitChar(ds[i])]
  IN  IF n < 0 THEN <<"-">> \o cs ELSE cs

\* The digits of a text of digit characters.
DigitsOf(txt) == [i \in 1 .. Len(txt) |-> DigitVal(txt[i])]

(***************************************************************************)
(* The tokenizer: ganja.js lines 637-643.  Each pattern gives the length   *)
(* of its match at the start of the text, or -1.                           *)
(***************************************************************************)
\* The position of the first occurrence of the two characters c1 c2 in txt from
\* position i on, 0 when there is none.
RECURSIVE FindPair(_, _, _, _)
FindPair(txt, i, c1, c2) ==
  IF i >= Len(txt) THEN 0
  ELSE IF txt[i] = c1 /\ txt[i + 1] = c2 THEN i ELSE FindPair(txt, i + 1, c1, c2)

\* 0: /^[\s]|^[line ends]|^\/\/[^\n]*\n|^\/\*[\s\S]*?\*\//: a whitespace character, or
\* a comment up to the first end of it (a line comment needs a line end).
MatchSpace(txt) ==
  IF txt /= <<>> /\ txt[1] \in Spaces THEN 1
  ELSE IF StartsWith(txt, <<"/", "*">>) /\ FindPair(txt, 3, "*", "/") > 0
       THEN FindPair(txt, 3, "*", "/") + 1
  ELSE -1

\* 1: /^\"\"|^\".*?[^\\]\"|.../: the empty string literal, or a quote, the
\* fewest characters, one more character and the first quote after them.
MatchString(txt) ==
  IF StartsWith(txt, <<"\"", "\"">>) THEN 2
  ELSE IF txt /= <<>> /\ txt[1] = "\"" /\ {k \in 3 .. Len(txt) : txt[k] = "\""} /= {}
       THEN SetMin({k \in 3 .. Len(txt) : txt[k] = "\""})
  ELSE -1

\* [\+\-_]{0,1}\d* at position i: an optional sign character and the digits after it.
SignedRun(txt, i) ==
  IF i <= Len(txt) /\ txt[i] \in {"+", "-", "_"} THEN 1 + RunLen(txt, i + 1, Digits)
  ELSE RunLen(txt, i, Digits)

\* 2: /^\d+[.]{0,1}\d*[ei][\+\-_]{0,1}\d*|^\.\d+[ei][\+\-_]{0,1}\d*|^e_\d*/
MatchAlgebraic(txt) ==
  LET n == RunLen(txt, 1, Digits)
  IN  IF n >= 1 /\ n < Len(txt) /\ txt[n + 1] \in {"e", "i"}
      THEN n + 1 + SignedRun(txt, n + 2)
      ELSE IF StartsWith(txt, <<"e", "_">>) THEN 2 + RunLen(txt, 3, Digits)
      ELSE -1

\* [+-]{0,1}\d* at position i.
ExponentRun(txt, i) ==
  IF i <= Len(txt) /\ txt[i] \in {"+", "-"} THEN 1 + RunLen(txt, i + 1, Digits)
  ELSE RunLen(txt, i, Digits)

\* 3: /^\d+[.]{0,1}\d*[E][+-]{0,1}\d*|^\.\d+[E][+-]{0,1}\d*|^0x\d+|^\d+[.]{0,1}\d*|^\.\d+|.../
MatchNumber(txt) ==
  LET n == RunLen(txt, 1, Digits)
  IN  IF n >= 1 /\ n < Len(txt) /\ txt[n + 1] = "E" THEN n + 1 + ExponentRun(txt, n + 2)
      ELSE IF StartsWith(txt, <<"0", "x">>) /\ RunLen(txt, 3, Digits) >= 1
           THEN 2 + RunLen(txt, 3, Digits)
      ELSE IF n >= 1 THEN n
      ELSE IF StartsWith(txt, <<"(", "/">>) /\ {k \in 5 .. Len(txt) : txt[k - 1] = "/" /\ txt[k] = ")"} /= {}
           THEN SetMax({k \in 5 .. Len(txt) : txt[k - 1] = "/" /\ txt[k] = ")"})
      ELSE -1

\* 4: the punctuators of more than one character, in the order of the pattern
\* (without those that hold a dot), before any single punctuator.
Punctuators ==
  << <<">", ">", ">", "=">>, <<"=", "=", "=">>, <<"!", "=", "=">>, <<">", ">", ">">>,
     <<"<", "<", "=">>, <<">", ">", "=">>, <<"=", ">">>,
     <<"<", "=">>, <<">", "=">>, <<"+", "=">>, <<"-", "=">>, <<"*", "=">>, <<"%", "=">>,
     <<"&", "=">>, <<"|", "=">>, <<"^", "=">>, <<"/", "=">>, <<"!", "=">>, <<"=", "=">>,
     <<"*", "*">>, <<"+", "+">>, <<"-", "-">>, <<"<", "<">>, <<">", ">">>, <<"&", "&">>,
     <<"^", "^">> >>

SinglePunctuators ==
  {"{", "}", "(", ")", "[", "]", ";", ",", "<", ">", "+", "-", "*", "%", "|", "&", "^",
   "!", "~", "?", ":", "=", "/"}

MatchPunctuator(txt) ==
  LET hits == {i \in 1 .. Len(Punctuators) : StartsWith(txt, Punctuators[i])}
  IN  IF hits /= {} THEN Len(Punctuators[SetMin(hits)])
      ELSE IF txt /= <<>> /\ txt[1] \in SinglePunctuators THEN 1
      ELSE -1

\* 5: /^[A-Za-z0-9_]*/ identifier
MatchIdentifier(txt) == RunLen(txt, 1, IdChars)

\* A token [type, text]; a list of translated tokens is a node with type -1.
Tok(ty, tx) == [ty |-> ty, tx |-> tx, it |-> <<>>]

List(it) == [ty |-> -1, tx |-> <<>>, it |-> it]

\* for(t in tokens) if(resi=txt.match(tokens[t])){ tok.push([t|0,resi[0]]); ...; break; }
NextToken(txt) ==
  IF MatchSpace(txt) >= 0 THEN Tok(0, SubSeq(txt, 1, MatchSpace(txt)))
  ELSE IF MatchString(txt) >= 0 THEN Tok(1, SubSeq(txt, 1, MatchString(txt)))
  ELSE IF MatchAlgebraic(txt) >= 0 THEN Tok(2, SubSeq(txt, 1, MatchAlgebraic(txt)))
  ELSE IF MatchNumber(txt) >= 0 THEN Tok(3, SubSeq(txt, 1, MatchNumber(txt)))
  ELSE IF MatchPunctuator(txt) >= 0 THEN Tok(4, SubSeq(txt, 1, MatchPunctuator(txt)))
  ELSE Tok(5, SubSeq(txt, 1, MatchIdentifier(txt)))

\* while (txt.length) ... txt=txt.slice(resi[0].length)
\* (an empty identifier match, at a character that is no source character,
\* leaves the text as it is and the loop does not end: the tokens stop there)
RECURSIVE Tokenise(_)
Tokenise(txt) ==
  IF txt = <<>> THEN <<>>
  ELSE LET t == NextToken(txt)
       IN  IF t.tx = <<>> THEN <<t>> ELSE <<t>> \o Tokenise(Drop(txt, Len(t.tx)))

(***************************************************************************)
(* The algebraic literals: ganja.js line 645.                              *)
(***************************************************************************)
\* The position of the first separator of t[1].split(/e_|e|i/), 0 when there is none.
SeparatorAt(tx) ==
  LET hits == {i \in 1 .. Len(tx) : tx[i] \in {"e", "i"}}
  IN  IF hits = {} THEN 0 ELSE SetMin(hits)

\* t[1].split(/e_|e|i/)[0] and [1]: an algebraic literal has one separator.
SplitBefore(tx) == SubSeq(tx, 1, SeparatorAt(tx) - 1)

SplitAfter(tx) ==
  LET i == SeparatorAt(tx)
  IN  IF tx[i] = "e" /\ i < Len(tx) /\ tx[i + 1] = "_" THEN Drop(tx, i + 1) ELSE Drop(tx, i)

\* basis.indexOf('e'+(t[1].split(/e_|e|i/)[1]||1))
LiteralIndex(bs, tx) ==
  LET suffix == IF SplitAfter(tx) = <<>> THEN <<"1">> ELSE SplitAfter(tx)
      hits == IF \A i \in 1 .. Len(suffix) : suffix[i] \in Digits
              THEN {i \in DOMAIN bs : bs[i] = DigitsOf(suffix)} ELSE {}
  IN  IF hits = {} THEN -1 ELSE SetMin(hits)

\* parseFloat(t[1][0]=='e'?1:t[1].split(/e_|e|i/)[0]), of digits
LiteralValue(tx) == IF tx[1] = "e" THEN 1 ELSE DecValue(DigitsOf(SplitBefore(tx)), 0)

ElementDot == <<"E", "l", "e", "m", "e", "n", "t", ".">>

\* [2,'Element.Coeff('+index+','+value+')']
LiteralCall(bs, tx) ==
  Tok(2, ElementDot \o <<"C", "o", "e", "f", "f", "(">> \o IntText(LiteralIndex(bs, tx))
         \o <<",">> \o IntText(LiteralValue(tx)) \o <<")">>)

\* tok=tok.map(t=>(t[0]==2)?[2,'Element.Coeff(...)']:t)
RewriteLiterals(bs, tok) ==
  [i \in 1 .. Len(tok) |-> IF tok[i].ty = 2 THEN LiteralCall(bs, tok[i].tx) ELSE tok[i]]

(***************************************************************************)
(* The two syntaxes: ganja.js lines 647-650.  An operator is               *)
(* [text, name, kind, rtl] with kind 0 and rtl FALSE where the source      *)
(* gives none.  (The three operators of the first level of the script      *)
(* syntax hold a dot, which no source text has.)                           *)
(***************************************************************************)
Operator(sym, name, kind, rtl) == [op |-> sym, name |-> name, kind |-> kind, rtl |-> rtl]

NameLt == <<"l", "t">>
NameGt == <<"g", "t">>
NameLte == <<"l", "t", "e">>
NameGte == <<"g", "t", "e">>
NameSub == <<"S", "u", "b">>
NameAdd == <<"A", "d", "d">>
NameMul == <<"M", "u", "l">>
NameDiv == <<"D", "i", "v">>
NameDot == <<"D", "o", "t">>
NameWedge == <<"W", "e", "d", "g", "e">>
NameVee == <<"V", "e", "e">>
NamePow == <<"P", "o", "w">>
NameDual == <<"D", "u", "a", "l">>
NameConjugate == <<"C", "o", "n", "j", "u", "g", "a", "t", "e">>

Comparisons ==
  << Operator(<<"<">>, NameLt, 0, FALSE), Operator(<<">">>, NameGt, 0, FALSE),
     Operator(<<"<", "=">>, NameLte, 0, FALSE), Operator(<<">", "=">>, NameGte, 0, FALSE) >>

Sums == << Operator(<<"-">>, NameSub, 0, FALSE), Operator(<<"+">>, NameAdd, 0, FALSE) >>

\* A syntax of a function whose sums are rewritten before its products.
ScriptSyntaxSumsFirst ==
  << << Operator(<<"*", "*">>, NamePow, 0, TRUE) >>,
     Sums,
     << Operator(<<"*">>, NameMul, 0, FALSE), Operator(<<"/">>, NameDiv, 0, FALSE) >>,
     Comparisons >>

\* the syntax of a function
ScriptSyntax ==
  << << Operator(<<".", "N", "o", "r", "m", "a", "l", "i", "z", "e", "d">>,
                 <<"N", "o", "r", "m", "a", "l", "i", "z", "e">>, 2, FALSE),
        Operator(<<".", "L", "e", "n", "g", "t", "h">>, <<"L", "e", "n", "g", "t", "h">>, 2, FALSE),
        Operator(<<".">>, <<".">>, 3, FALSE) >>,
     << Operator(<<"~">>, <<"C", "o", "n", "j", "u", "g", "a", "t", "e">>, 1, FALSE),
        Operator(<<"!">>, <<"D", "u", "a", "l">>, 1, FALSE) >>,
     << Operator(<<"*", "*">>, NamePow, 0, TRUE) >>,
     << Operator(<<">", ">", ">">>, <<"s", "w">>, 0, TRUE), Operator(<<"^">>, NameWedge, 0, FALSE),
        Operator(<<"&">>, NameVee, 0, FALSE), Operator(<<"<", "<">>, NameDot, 0, FALSE) >>,
     << Operator(<<"*">>, NameMul, 0, FALSE), Operator(<<"/">>, NameDiv, 0, FALSE) >>,
     Sums,
     Comparisons >>

\* the syntax of a text (asciimath)
TextSyntax ==
  << << Operator(<<"p", "i">>, <<"M", "a", "t", "h", ".", "P", "I">>, 0, FALSE),
        Operator(<<"s", "i", "n">>, <<"M", "a", "t", "h", ".", "s", "i", "n">>, 0, FALSE) >>,
     << Operator(<<"d", "d", "o", "t">>, <<"t", "h", "i", "s", ".", "R", "e", "v", "e", "r", "s", "e">>, 0, FALSE),
        Operator(<<"t", "i", "l", "d", "e">>, <<"t", "h", "i", "s", ".", "I", "n", "v", "o", "l", "u", "t", "e">>, 0, FALSE),
        Operator(<<"h", "a", "t">>, <<"t", "h", "i", "s", ".", "C", "o", "n", "j", "u", "g", "a", "t", "e">>, 0, FALSE),
        Operator(<<"b", "a", "r">>, <<"t", "h", "i", "s", ".", "D", "u", "a", "l">>, 0, FALSE) >>,
     << Operator(<<"^">>, NamePow, 0, TRUE) >>,
     << Operator(<<"^", "^">>, NameWedge, 0, FALSE), Operator(<<"*">>, NameDot, 0, FALSE) >>,
     << Operator(<<"*", "*">>, NameMul, 0, FALSE), Operator(<<"/">>, NameDiv, 0, FALSE) >>,
     Sums,
     Comparisons >>

\* [].concat.apply([],syntax)
RECURSIVE Flat(_)
Flat(syntax) == IF syntax = <<>> THEN <<>> ELSE Head(syntax) \o Flat(Tail(syntax))

\* tok=tok.map(t=>(t[0]!=5)?t:flat.filter(x=>x[0]==t[1]).length?[5,flat.filter(x=>x[0]==t[1])[0][1]]:t)
RenameIdentifiers(syntax, tok) ==
  LET flat == Flat(syntax)
  IN  [i \in 1 .. Len(tok) |->
         LET hits == {k \in 1 .. Len(flat) : flat[k].op = tok[i].tx}
         IN  IF tok[i].ty /= 5 \/ hits = {} THEN tok[i] ELSE Tok(5, flat[SetMin(hits)].name)]


(***************************************************************************)
(* translate: ganja.js lines 652-711.  A node is a token or a list of      *)
(* nodes.  ErrTok stands for the undefined that makes the code throw a     *)
(* TypeError when it reads a token past the end.                           *)
(***************************************************************************)
ErrTok == Tok(-2, <<>>)

CallOpen(name) == Tok(1, ElementDot \o name \o <<"(">>)

CallClose == Tok(1, <<")">>)

CallComma == Tok(1, <<",">>)

\* x[1].match&&x[1].match(/^\s+$/): a token whose text is whitespace.
IsSpaceNode(x) == x.ty >= 0 /\ x.tx /= <<>> /\ \A i \in 1 .. Len(x.tx) : x.tx[i] \in Spaces

\* while(resi.length&&...match(/^\s+$/)) resi.pop()
RECURSIVE PopSpaces(_)
PopSpaces(resi) ==
  IF resi /= <<>> /\ IsSpaceNode(resi[Len(resi)]) THEN PopSpaces(SubSeq(resi, 1, Len(resi) - 1))
  ELSE resi

\* var after=tokens[i+1]; while (whitespace) after = tokens[++i+1]: the position
\* of after from j on, 0 when the tokens end first.
RECURSIVE AfterAt(_, _)
AfterAt(tokens, j) ==
  IF j > Len(tokens) THEN 0
  ELSE IF IsSpaceNode(tokens[j]) THEN AfterAt(tokens, j + 1) ELSE j

\* var after=tokens[i-1]; while (whitespace) after = tokens[--i-1]
RECURSIVE BeforeAt(_, _)
BeforeAt(tokens, j) ==
  IF j < 1 THEN 0
  ELSE IF IsSpaceNode(tokens[j]) THEN BeforeAt(tokens, j - 1) ELSE j

\* The first closing bracket from position i on, whatever was opened before it.
RECURSIVE CloseAtFirst(_, _, _)
CloseAtFirst(tokens, i, open) ==
  IF i > Len(tokens) THEN 0
  ELSE IF tokens[i].tx = <<")">> THEN i ELSE CloseAtFirst(tokens, i + 1, open)

\* while (open) { t = tokens[++i]; if (t[1] == '(') open++; else if (t[1] == ')') open--; ... }
\* the position of the closing bracket, 0 when the tokens end first.
RECURSIVE CloseAt(_, _, _)
CloseAt(tokens, i, open) ==
  IF i > Len(tokens) THEN 0
  ELSE LET o == IF tokens[i].tx = <<"(">> THEN open + 1
                ELSE IF tokens[i].tx = <<")">> THEN open - 1 ELSE open
       IN  IF o = 0 THEN i ELSE CloseAt(tokens, i + 1, o)

\* while(resi.length && (resi[resi.length-1][0]==5 || resi[resi.length-1][1]=='.'))
\*   pre.unshift(resi.pop()[1]): the number of nodes popped.
RECURSIVE PreLen(_, _)
PreLen(resi, n) ==
  IF n < Len(resi) /\ (resi[Len(resi) - n].ty = 5 \/ resi[Len(resi) - n].tx = <<".">>)
  THEN PreLen(resi, n + 1) ELSE n

\* while (open) { t = tokens[++i]; if (t[1] == '[') open++; else if (t[1] == ']') open--; ... }
RECURSIVE CloseSquareAt(_, _, _)
CloseSquareAt(tokens, i, open) ==
  IF i > Len(tokens) THEN 0
  ELSE LET o == IF tokens[i].tx = <<"[">> THEN open + 1
                ELSE IF tokens[i].tx = <<"]">> THEN open - 1 ELSE open
       IN  IF o = 0 THEN i ELSE CloseSquareAt(tokens, i + 1, o)

\* pre.join('')
RECURSIVE JoinText(_)
JoinText(ts) == IF ts = <<>> THEN <<>> ELSE Head(ts).tx \o JoinText(Tail(ts))

\* resi[i][0][0]==2 && /[\[\(]/.test(resi[i][0][1][0]): a list that opens with a bracket.
IsBracket(x) ==
  /\ x.ty = -1 /\ x.it /= <<>>
  /\ x.it[1].ty = 2 /\ x.it[1].tx /= <<>> /\ x.it[1].tx[1] \in {"(", "["}

\* glue array indexing and function calls: lists that open with a bracket and
\* follow one another become one list (glued: the list at the end of c is open).
RECURSIVE Glue(_, _, _, _)
Glue(resi, i, c, glued) ==
  IF i > Len(resi) THEN c
  ELSE IF ~IsBracket(resi[i]) THEN Glue(resi, i + 1, Append(c, resi[i]), FALSE)
  ELSE IF glued
       THEN Glue(resi, i + 1, [c EXCEPT ![Len(c)] = List(Append(c[Len(c)].it, resi[i]))], TRUE)
  ELSE IF i < Len(resi) /\ IsBracket(resi[i + 1])
       THEN Glue(resi, i + 1, Append(c, List(<<resi[i]>>)), TRUE)
  ELSE Glue(resi, i + 1, Append(c, resi[i]), FALSE)

\* The left-to-right loop over the tokens for the operators of one level.
RECURSIVE LtrPass(_, _, _, _)
LtrPass(level, tokens, i, resi) ==
  IF i > Len(tokens) THEN resi
  ELSE LET t == tokens[i]
           hits == {k \in 1 .. Len(level) : level[k].op = t.tx}
       IN  IF t.ty < 0 \/ hits = {} THEN LtrPass(level, tokens, i + 1, Append(resi, t))
           ELSE LET o == level[SetMin(hits)]
                    r1 == IF o.kind /= 1 THEN PopSpaces(resi) ELSE resi
                    n == Len(r1)
                    j == IF o.kind /= 2 THEN AfterAt(tokens, i + 1) ELSE i
                IN  IF j = 0 THEN <<ErrTok>>
                    ELSE LtrPass(level, tokens, j + 1,
                           IF o.kind = 3
                           THEN (IF n = 0 THEN r1
                                 ELSE [r1 EXCEPT ![n] = List(<<r1[n], Tok(1, <<".">>), tokens[j]>>)])
                           ELSE IF o.kind = 2
                           THEN (IF n = 0 THEN r1
                                 ELSE [r1 EXCEPT ![n] = List(<<CallOpen(o.name), r1[n], CallClose>>)])
                           ELSE IF o.kind /= 0 \/ n = 0 \/ r1[n].ty = 4
                           THEN Append(r1, List(<<CallOpen(o.name), tokens[j], CallClose>>))
                           ELSE [r1 EXCEPT ![n] =
                                   List(<<CallOpen(o.name), r1[n], CallComma, tokens[j], CallClose>>)])

RECURSIVE Reversed(_)
Reversed(sq) == IF sq = <<>> THEN <<>> ELSE Append(Reversed(Tail(sq)), Head(sq))

\* The right-to-left loop over the tokens for one operator (op[3] set).
RECURSIVE RtlPass(_, _, _, _)
RtlPass(o, tokens, i, resi) ==
  IF i < 1 THEN Reversed(resi)
  ELSE LET t == tokens[i]
       IN  IF t.ty < 0 \/ t.tx /= o.op THEN RtlPass(o, tokens, i - 1, Append(resi, t))
           ELSE LET r1 == PopSpaces(resi)
                    n == Len(r1)
                    j == IF o.kind = 0 THEN BeforeAt(tokens, i - 1) ELSE 0
                IN  IF j = 0 THEN <<ErrTok>>
                    ELSE RtlPass(o, tokens, j - 1,
                           IF n = 0 THEN <<List(<<CallOpen(o.name), ErrTok, CallClose>>)>>
                           ELSE IF r1[n].ty = 4
                           THEN Append(r1, List(<<CallOpen(o.name), r1[n], CallClose>>))
                           ELSE [r1 EXCEPT ![n] =
                                   List(<<CallOpen(o.name), tokens[j], CallComma, r1[n], CallClose>>)])

\* The loops of a level when the direction op[3] of an operator is not read.
RECURSIVE PassesLeftToRight(_, _, _)
PassesLeftToRight(level, k, resi) ==
  IF k > Len(level) THEN resi
  ELSE PassesLeftToRight(level, k + 1, LtrPass(level, resi, 1, <<>>))

\* syntaxd.forEach((op)=>{ tokens=resi; resi=[]; ... }): one loop for every operator
\* of the level, from the k-th on.
RECURSIVE Passes(_, _, _)
Passes(level, k, resi) ==
  IF k > Len(level) THEN resi
  ELSE Passes(level, k + 1,
              IF level[k].rtl THEN RtlPass(level[k], resi, Len(resi), <<>>)
              ELSE LtrPass(level, resi, 1, <<>>))

\* syntax.forEach((syntaxd,k)=>{...})
RECURSIVE Levels(_, _, _)
Levels(syntax, k, resi) ==
  IF k > Len(syntax) THEN resi ELSE Levels(syntax, k + 1, Passes(syntax[k], 1, resi))

\* isTok=(x,t)=>{while(x>0 && resi[x][0]==0)x--; return resi[x][0]==t}
RECURSIVE isTok(_, _, _)
isTok(resi, x, t) == IF x > 1 /\ resi[x].ty = 0 THEN isTok(resi, x - 1, t) ELSE resi[x].ty = t

ReturnWord == <<"r", "e", "t", "u", "r", "n">>

\* t[1]=='-'&&resi.length&&(isTok(resi.length-1,4) || resi[resi.length-1][1]=='return'
\*   || (resi[resi.length-1][0]==0 && resi[resi.length-2][1]=='return'))
\* "yes", "no", or "throws" when resi[resi.length-2] is undefined.
UnaryMinus(resi, t) ==
  IF t.tx /= <<"-">> \/ resi = <<>> THEN "no"
  ELSE IF isTok(resi, Len(resi), 4) \/ resi[Len(resi)].tx = ReturnWord THEN "yes"
  ELSE IF resi[Len(resi)].ty /= 0 THEN "no"
  ELSE IF Len(resi) = 1 THEN "throws"
  ELSE IF resi[Len(resi) - 1].tx = ReturnWord THEN "yes" ELSE "no"

\* while(resi.length && (isTok(resi.length-1,5) || isTok(resi.length-1,2)
\*   || resi[resi.length-1][1]=='.')) pre.unshift(resi.pop()[1]): the number of nodes popped.
RECURSIVE PreLenSquare(_, _)
PreLenSquare(resi, n) ==
  IF n < Len(resi) /\ (isTok(resi, Len(resi) - n, 5) \/ isTok(resi, Len(resi) - n, 2)
                        \/ resi[Len(resi) - n].tx = <<".">>)
  THEN PreLenSquare(resi, n + 1) ELSE n

\* while (~'~!-'.indexOf(t[1]) || open) { t=tokens[++i]; if (t[1] == '(') open++;
\*   else if (t[1] == ')') open--; sub.push(t); }: the position of the last token
\* of sub when t is the token at i, 0 when the tokens end first.
RECURSIVE UnaryEnd(_, _, _)
UnaryEnd(tokens, i, open) ==
  IF tokens[i].tx \in {<<"~">>, <<"!">>, <<"-">>} \/ open /= 0
  THEN IF i = Len(tokens) THEN 0
       ELSE UnaryEnd(tokens, i + 1,
                     IF tokens[i + 1].tx = <<"(">> THEN open + 1
                     ELSE IF tokens[i + 1].tx = <<")">> THEN open - 1 ELSE open)
  ELSE i

\* function translate(tokens): the loop that recurses on round brackets and on
\* a minus sign after an operator (Brackets), the glue loop, and the loops over
\* the operators.
RECURSIVE translate(_, _)
RECURSIVE Brackets(_, _, _, _)
Brackets(syntax, tokens, i, resi) ==
  IF i > Len(tokens) THEN resi
  ELSE IF tokens[i].tx = <<"(">>
       THEN LET n == PreLen(resi, 0)
                pre == JoinText(SubSeq(resi, Len(resi) - n + 1, Len(resi)))
                close == CloseAt(tokens, i + 1, 1)
                sub == IF close = 0 THEN <<ErrTok>>
                       ELSE translate(syntax, SubSeq(tokens, i + 1, close - 1))
            IN  IF sub = <<ErrTok>> THEN <<ErrTok>>
                ELSE Brackets(syntax, tokens, close + 1,
                       Append(SubSeq(resi, 1, Len(resi) - n),
                              List(<<Tok(2, pre \o <<"(">>)>> \o sub \o <<Tok(2, <<")">>)>>)))
       ELSE IF tokens[i].tx = <<"[">>
       THEN LET n == PreLenSquare(resi, 0)
                pre == JoinText(SubSeq(resi, Len(resi) - n + 1, Len(resi)))
                close == CloseSquareAt(tokens, i + 1, 1)
                sub == IF close = 0 THEN <<ErrTok>>
                       ELSE translate(syntax, SubSeq(tokens, i + 1, close - 1))
            IN  IF sub = <<ErrTok>> THEN <<ErrTok>>
                ELSE Brackets(syntax, tokens, close + 1,
                       Append(SubSeq(resi, 1, Len(resi) - n),
                              List(<<Tok(2, pre \o <<"[">>)>> \o sub \o <<Tok(2, <<"]">>)>>)))
       ELSE IF tokens[i].tx \in {<<"~">>, <<"!">>}
       THEN LET end == UnaryEnd(tokens, i, 0)
                sub == IF end = 0 THEN <<ErrTok>>
                       ELSE translate(syntax, SubSeq(tokens, i + 1, end))
            IN  IF sub = <<ErrTok>> THEN <<ErrTok>>
                ELSE Brackets(syntax, tokens, end + 1,
                       resi \o <<tokens[i], List(<<Tok(2, <<>>)>> \o sub)>>)
       ELSE IF UnaryMinus(resi, tokens[i]) = "throws" THEN <<ErrTok>>
       ELSE IF UnaryMinus(resi, tokens[i]) = "yes"
       THEN LET sub == IF i = Len(tokens) THEN <<ErrTok>>
                       ELSE translate(syntax, <<tokens[i], tokens[i + 1]>>)
            IN  IF sub = <<ErrTok>> THEN <<ErrTok>>
                ELSE Brackets(syntax, tokens, i + 2, Append(resi, List(<<Tok(2, <<>>)>> \o sub)))
       ELSE Brackets(syntax, tokens, i + 1, Append(resi, tokens[i]))

translate(syntax, tokens) ==
  LET r0 == Brackets(syntax, tokens, 1, <<>>)
  IN  IF r0 = <<ErrTok>> THEN r0 ELSE Levels(syntax, 1, Glue(r0, 1, <<>>, FALSE))

\* (function f(t){return t.map(t=>t[0]instanceof Array?f(t):t[1]).join('');})
RECURSIVE Glued(_)
Glued(nodes) ==
  IF nodes = <<>> THEN <<>>
  ELSE (IF Head(nodes).ty = -1 THEN Glued(Head(nodes).it) ELSE Head(nodes).tx) \o Glued(Tail(nodes))

\* The nodes hold an undefined: reading it throws.
RECURSIVE Broken(_)
Broken(nodes) ==
  /\ nodes /= <<>>
  /\ \/ Head(nodes) = ErrTok
     \/ Head(nodes).ty = -1 /\ Broken(Head(nodes).it)
     \/ Broken(Tail(nodes))

(***************************************************************************)
(* inline: ganja.js lines 627-714.  The argument is a function (its text   *)
(* is its source) or a text.                                               *)
(***************************************************************************)
Function(src) == [ty |-> "Function", src |-> src]

String(src) == [ty |-> "string", src |-> src]

\* var txt = (intxt instanceof Function)?intxt.toString():`function(){return (${intxt})}`
SourceText(intxt) ==
  IF intxt.ty = "Function" THEN intxt.src
  ELSE <<"f", "u", "n", "c", "t", "i", "o", "n", "(", ")", "{", "r", "e", "t", "u", "r", "n", " ", "(">>
       \o intxt.src \o <<")", "}">>

\* var syntax = (intxt instanceof Function)? ... : ...
SyntaxOf(intxt) == IF intxt.ty = "Function" THEN ScriptSyntax ELSE TextSyntax

\* The text handed to eval, without the brackets around it.
Translated(bs, intxt) ==
  translate(SyntaxOf(intxt),
            RenameIdentifiers(SyntaxOf(intxt), RewriteLiterals(bs, Tokenise(SourceText(intxt)))))

\* A value of a call that is not followed here.
Other == [ty |-> "other"]

\* The static method of the class that a call in the translated text names.
ApplyStatic(A, name, args) ==
  IF name = <<"C", "o", "e", "f", "f">> THEN El(Coeff(A, [i \in 1 .. Len(args) |-> args[i].v]))
  ELSE IF name = NameAdd /\ Len(args) = 2 THEN StaticAdd(A, args[1], args[2])
  ELSE IF name = NameMul /\ Len(args) = 2 THEN StaticMul(A, args[1], args[2])
  ELSE IF name = NameDot /\ Len(args) = 2 THEN StaticDot(A, args[1], args[2])
  ELSE Other

\* The value of the expression of the translated text that starts at position
\* i, and the position after it: a bracketed expression, a number, or a call
\* Element.name(arguments).
RECURSIVE EvalExpr(_, _, _)
RECURSIVE EvalArgs(_, _, _)
EvalExpr(A, cs, i) ==
  IF i > Len(cs) THEN [v |-> Thrown("SyntaxError"), i |-> i]
  ELSE IF cs[i] = "(" THEN LET e == EvalExpr(A, cs, i + 1) IN [v |-> e.v, i |-> e.i + 1]
  ELSE IF cs[i] \in Digits
       THEN LET n == RunLen(cs, i, Digits)
            IN  [v |-> Num(DecValue(DigitsOf(SubSeq(cs, i, i + n - 1)), 0)), i |-> i + n]
  ELSE IF cs[i] = "-" /\ RunLen(cs, i + 1, Digits) > 0
       THEN LET n == RunLen(cs, i + 1, Digits)
            IN  [v |-> Num(0 - DecValue(DigitsOf(SubSeq(cs, i + 1, i + n)), 0)), i |-> i + 1 + n]
  ELSE IF StartsWith(Drop(cs, i - 1), ElementDot)
       THEN LET k == i + Len(ElementDot)
                n == RunLen(cs, k, Letters)
                args == EvalArgs(A, cs, k + n + 1)
            IN  [v |-> ApplyStatic(A, SubSeq(cs, k, k + n - 1), args.vs), i |-> args.i]
  ELSE [v |-> Other, i |-> i]

\* The values of the arguments from position i to the closing bracket.
EvalArgs(A, cs, i) ==
  LET e == EvalExpr(A, cs, i)
  IN  IF e.i <= Len(cs) /\ cs[e.i] = ","
      THEN LET more == EvalArgs(A, cs, e.i + 1) IN [vs |-> <<e.v>> \o more.vs, i |-> more.i]
      ELSE [vs |-> <<e.v>>, i |-> e.i + 1]

ArrowHead == <<"(", ")", "=", ">">>

ReturnHead ==
  <<"f", "u", "n", "c", "t", "i", "o", "n", "(", ")", "{", "r", "e", "t", "u", "r", "n", " ">>

\* eval('('+text+')')(): the value the function of the text returns, for an arrow
\* function of an expression and for function(){return (expression)}.
CallEval(A, cs) ==
  IF StartsWith(cs, ArrowHead) THEN EvalExpr(A, cs, Len(ArrowHead) + 1).v
  ELSE IF StartsWith(cs, ReturnHead) THEN EvalExpr(A, cs, Len(ReturnHead) + 1).v
  ELSE Other

\* The text from position i on, without the whitespace it starts with.
SkipSpaces(cs, i) == i + RunLen(cs, i, Spaces)

\* eval of the translated text parses it.  The translated text of an expression
\* of operands, brackets and translated operators is made of numbers, names,
\* string literals, brackets and calls name(arguments): ParseExpr gives the
\* position after such an expression that starts at i, 0 when there is none
\* (an operator left in the text, a bracket that is not closed, two operands
\* with nothing between them).
RECURSIVE ParseExpr(_, _)
RECURSIVE ParseArgs(_, _)
\* The closing bracket at position e, after a bracketed expression.
AfterBracket(cs, e) == IF e = 0 \/ e > Len(cs) THEN 0 ELSE IF cs[e] = ")" THEN e + 1 ELSE 0

\* The closing square bracket at position e, after an index expression.
AfterIndex(cs, e) == IF e = 0 \/ e > Len(cs) THEN 0 ELSE IF cs[e] = "]" THEN e + 1 ELSE 0

\* A name ends before position e: a call when a round bracket follows, an
\* indexing when a square one does.
AfterName(cs, e) ==
  IF e <= Len(cs) /\ cs[e] = "(" THEN ParseArgs(cs, e + 1)
  ELSE IF e <= Len(cs) /\ cs[e] = "[" THEN AfterIndex(cs, ParseExpr(cs, e + 1))
  ELSE e

\* The whitespace after an operand.
AfterPrimary(cs, e) == IF e = 0 THEN 0 ELSE SkipSpaces(cs, e)

\* An argument ends before position e: a comma and the next argument, or the
\* closing bracket.
AfterArg(cs, e) ==
  IF e = 0 \/ e > Len(cs) THEN 0
  ELSE IF cs[e] = ")" THEN e + 1
  ELSE IF cs[e] = "," /\ e < Len(cs) /\ cs[e + 1] /= ")" THEN ParseArgs(cs, e + 1)
  ELSE 0

ParsePrimary(cs, i) ==
  IF i > Len(cs) THEN 0
  ELSE IF cs[i] = "(" THEN AfterBracket(cs, ParseExpr(cs, i + 1))
  ELSE IF cs[i] \in Digits THEN
    (IF RunLen(cs, i, IdChars) = RunLen(cs, i, Digits) THEN i + RunLen(cs, i, Digits) ELSE 0)
  ELSE IF cs[i] = "\"" THEN
    (IF {k \in (i + 1) .. Len(cs) : cs[k] = "\""} = {} THEN 0
     ELSE SetMin({k \in (i + 1) .. Len(cs) : cs[k] = "\""}) + 1)
  ELSE IF cs[i] \in Letters \cup {"_"} THEN AfterName(cs, i + RunLen(cs, i, IdChars \cup {"."}))
  ELSE 0

ParseExpr(cs, i) == AfterPrimary(cs, ParsePrimary(cs, SkipSpaces(cs, i)))

\* The arguments of a call from position i to the closing bracket.
ParseArgs(cs, i) ==
  IF i > Len(cs) THEN 0
  ELSE IF cs[i] = ")" THEN i + 1
  ELSE AfterArg(cs, ParseExpr(cs, i))

\* The text is an arrow function of an expression, or function(){return expression}.
WellFormed(cs) ==
  IF StartsWith(cs, ArrowHead) THEN ParseExpr(cs, Len(ArrowHead) + 1) = Len(cs) + 1
  ELSE IF StartsWith(cs, ReturnHead)
       THEN ParseExpr(cs, Len(ReturnHead) + 1) = Len(cs) /\ cs[Len(cs)] = "}"
  ELSE FALSE

\* The tokenizer loop does not end: an empty identifier match, at a character
\* no pattern matches, leaves the text as it is.
Hangs(tok) == tok /= <<>> /\ tok[Len(tok)].tx = <<>>

\* A call that does not return.
Diverges == [ty |-> "diverges"]

\* eval('('+text+')') of the translated nodes.
EvalNodes(nodes) ==
  IF Broken(nodes) THEN Thrown("TypeError")
  ELSE IF ~WellFormed(Glued(nodes)) THEN Thrown("SyntaxError")
  ELSE Function(Glued(nodes))

\* res.inline(intxt): the translated function, or what the translation throws.
Inline(A, intxt) ==
  IF Hangs(Tokenise(SourceText(intxt))) THEN Diverges
  ELSE EvalNodes(Translated(A.basis, intxt))

\* f(), when the translation gave a function f.
CallFunction(A, f) == IF f.ty = "Function" THEN CallEval(A, f.src) ELSE f

\* res.inline(intxt)()
InlineCall(A, intxt) == CallFunction(A, Inline(A, intxt))

(***************************************************************************)
(* The program state.  A class returned by Algebra is a closure over its   *)
(* tables, which no code assigns after line 127: the state holds, for each *)
(* class built so far, the signature it was built from (algs), and Class   *)
(* gives the tables of that closure.  mulTable2b is the variable that line *)
(* 109 assigns without declaring it (a global of the script): it holds the *)
(* signature of the class whose table was last written to it.  a and b are *)
(* two elements the caller holds, out is the value of the caller's last    *)
(* call and last names that call.                                          *)
(***************************************************************************)
VARIABLES algs, mulTable2b, a, b, out, last

\* The service worker of the CoffeeShop example (src/examples/sw.js) runs beside
\* the page: caches is the cache storage of the origin, state the state of the
\* worker with the position of its activate handler, deletions the promises
\* the activate handler gave to Promise.all, by cache name (pending or done),
\* claimed whether clients.claim() was called,
\* events the fetch events with the position of the handler of each, and puts
\* the responses the handlers have handed to caches.open(CACHE_NAME).
VARIABLES caches, state, deletions, claimed, events, puts

swvars == <<caches, state, deletions, claimed, events, puts>>

algvars == <<algs, mulTable2b, a, b, out, last>>

vars == <<algs, mulTable2b, a, b, out, last, swvars>>

(***************************************************************************)
(* The cache storage and the responses: src/examples/sw.js lines 1-14.     *)
(***************************************************************************)
CACHE_NAME == "coffeeshop-v1"

\* Caches earlier versions of the worker may have left.
OldNames == {"coffeeshop-v0", "runtime"}

\* caches.keys() and caches.match() go through the caches in the order they
\* were created.
CacheOrder == <<"coffeeshop-v0", "runtime", CACHE_NAME>>

\* Of the urls of urlsToCache, the one the model follows.
urlsToCache == {"/ganja.js"}

Urls == urlsToCache \cup {"/examples/data.json"}

\* A response: its status, its type and the version of its body.
Response(status, type, v) == [status |-> status, type |-> type, v |-> v]

\* undefined where a response is expected.
NoResponse == Response(0, "undefined", 0)

\* What the network answers.
NetResponses ==
  {Response(200, "basic", 1), Response(200, "basic", 2), Response(404, "basic", 1),
   Response(200, "cors", 1), Response(0, "opaque", 1)}

NoCache == [exists |-> FALSE, entries |-> [u \in Urls |-> NoResponse]]

EmptyCache == [exists |-> TRUE, entries |-> [u \in Urls |-> NoResponse]]

\* The fetch events the model follows.
MaxEvents == 2

\* A fetch event: the position of its handler, the request, the response of
\* the first caches.match, the response of fetch, whether a network request was
\* made, and what respondWith was resolved with.
Idle ==
  [st |-> "idle", url |-> "", response |-> NoResponse, network |-> NoResponse,
   net |-> FALSE, answer |-> NoResponse]

Signatures == {s \in (0 .. MaxDim) \X (0 .. MaxDim) \X (0 .. MaxDim) : s[1] + s[2] + s[3] <= MaxDim}

\* The closures Algebra(p,q,r) returns, one per signature.
Classes == Built([s \in Signatures |-> Algebra(s[1], s[2], s[3])])

\* Signatures with a generator named "10".  Their closures are held by their
\* names part, and single cells of their tables are computed when read.
WideSignatures == {<<WideDim, 0, 0>>, <<0, WideDim, 0>>, <<WideDim, 0, 1>>}

WideClasses == Built([s \in WideSignatures |-> Names(s[1], s[2], s[3])])

Class(s) == IF s \in Signatures THEN Classes[s] ELSE WideClasses[s]

\* The class the caller works with.
Alg == Class(algs[1])

Init ==
  /\ algs = <<>>
  /\ mulTable2b = Undefined
  /\ a = Undefined
  /\ b = Undefined
  /\ out = Undefined
  /\ last = "start"
  /\ caches = [n \in OldNames \cup {CACHE_NAME} |-> NoCache]
  /\ state = "parsed"
  /\ deletions = [n \in {} |-> "done"]
  /\ claimed = FALSE
  /\ events = [e \in 1 .. MaxEvents |-> Idle]
  /\ puts = {}

\* var Alg = Algebra(p,q,r)
CallAlgebra ==
  \E s \in Signatures :
    /\ algs = <<>>
    /\ algs' = <<s>>
    /\ mulTable2b' = [ty |-> "mulTable2b", of |-> s]
    /\ last' = "Algebra"
    /\ UNCHANGED <<a, b, out, swvars>>

\* The arguments (k, v) of the Coeff calls: every blade of a small algebra with
\* every coefficient, the scalar and the generators of a wide one with 1.
Operands(A) ==
  IF A.tot <= MaxDim THEN (DOMAIN A.basis) \X (1 .. MaxCoef)
  ELSE {i \in DOMAIN A.basis : Cardinality(A.generators[i]) <= 1} \X {1}

\* var Alg = Algebra(p,q,r) with a wide signature
CallAlgebraWide ==
  \E s \in WideSignatures :
    /\ algs = <<>>
    /\ algs' = <<s>>
    /\ mulTable2b' = [ty |-> "mulTable2b", of |-> s]
    /\ last' = "Algebra"
    /\ UNCHANGED <<a, b, out, swvars>>

\* var a = Alg.Coeff(k,v)
NewA ==
  /\ algs /= <<>> /\ a = Undefined /\ b = Undefined
  /\ \E kv \in Operands(Alg) :
       /\ a' = El(Coeff(Alg, <<kv[1], kv[2]>>))
       /\ last' = "Coeff"
       /\ UNCHANGED <<algs, mulTable2b, b, out, swvars>>

\* var b = Alg.Coeff(k,v)
NewB ==
  /\ algs /= <<>> /\ IsEl(a) /\ b = Undefined
  /\ \E kv \in Operands(Alg) :
       /\ b' = El(Coeff(Alg, <<kv[1], kv[2]>>))
       /\ last' = "Coeff"
       /\ UNCHANGED <<algs, mulTable2b, a, out, swvars>>

\* The caller makes one call on the elements it holds.
Binary(name, val) ==
  /\ out' = El(val)
  /\ last' = name
  /\ UNCHANGED <<algs, mulTable2b, a, b, swvars>>

Ready == IsEl(a) /\ IsEl(b) /\ out = Undefined

\* out = a.Add(b), a.Sub(b), a.Mul(b), a.Dot(b), a.Wedge(b), a.Vee(b)
CallAdd == Ready /\ Binary("Add", Add(Alg, a.c, b.c))
CallSub == Ready /\ Binary("Sub", Sub(Alg, a.c, b.c))
CallMul == Ready /\ Binary("Mul", Mul(Alg, a.c, b.c))
CallDot == Ready /\ Binary("Dot", Dot(Alg, a.c, b.c))
CallWedge == Ready /\ Binary("Wedge", Wedge(Alg, a.c, b.c))
CallVee == Ready /\ Binary("Vee", Vee(Alg, a.c, b.c))

\* out = a.Dual
GetDual ==
  /\ IsEl(a) /\ out = Undefined
  /\ out' = El(Dual(Alg, a.c))
  /\ last' = "Dual"
  /\ UNCHANGED <<algs, mulTable2b, a, b, swvars>>

Next ==
  \/ CallAlgebra
  \/ NewA
  \/ NewB
  \/ CallAdd
  \/ CallSub
  \/ CallMul
  \/ CallDot
  \/ CallWedge
  \/ CallVee
  \/ GetDual

Spec == Init /\ [][Next]_vars

(***************************************************************************)
(* The caller passes the element the result is written to: res is this, b, *)
(* or another element that holds a value in every coefficient.  The value  *)
(* returned is that element (out.res names it), and the operand that was   *)
(* passed holds the result after the call.                                 *)
(***************************************************************************)
Buffers == {"this", "b", "other"}

\* An element with a value in every coefficient.
Filled(A) == Built([i \in DOMAIN A.basis |-> MaxCoef])

\* out = a.name(b, res)
CallInto(name, r, val) ==
  /\ out' = [ty |-> "Element", c |-> val, res |-> r]
  /\ a' = IF r = "this" THEN El(val) ELSE a
  /\ b' = IF r = "b" THEN El(val) ELSE b
  /\ last' = name
  /\ UNCHANGED <<algs, mulTable2b, swvars>>

\* The element passed as res and what it shares with the operands.
ResOf(A, r) == IF r = "this" THEN a.c ELSE IF r = "b" THEN b.c ELSE Filled(A)

AliasOf(r) == [t |-> r = "this", b |-> r = "b"]

CallAddInto ==
  Ready /\ \E A \in {Alg} : \E r \in Buffers :
    CallInto("Add", r, AddInto(A, a.c, b.c, ResOf(A, r), AliasOf(r)))

CallSubInto ==
  Ready /\ \E A \in {Alg} : \E r \in Buffers :
    CallInto("Sub", r, SubInto(A, a.c, b.c, ResOf(A, r), AliasOf(r)))

CallMulInto ==
  Ready /\ \E A \in {Alg} : \E r \in Buffers :
    CallInto("Mul", r, MulInto(A, a.c, b.c, ResOf(A, r), AliasOf(r)))

CallDotInto ==
  Ready /\ \E A \in {Alg} : \E r \in Buffers :
    CallInto("Dot", r, DotInto(A, a.c, b.c, ResOf(A, r), AliasOf(r)))

CallWedgeInto ==
  Ready /\ \E A \in {Alg} : \E r \in Buffers :
    CallInto("Wedge", r, WedgeInto(A, a.c, b.c, ResOf(A, r), AliasOf(r)))

CallVeeInto ==
  Ready /\ \E A \in {Alg} : \E r \in Buffers :
    CallInto("Vee", r, VeeInto(A, a.c, b.c, ResOf(A, r), AliasOf(r)))

NextInto ==
  \/ CallAlgebra
  \/ NewA
  \/ NewB
  \/ CallAddInto
  \/ CallSubInto
  \/ CallMulInto
  \/ CallDotInto
  \/ CallWedgeInto
  \/ CallVeeInto

SpecInto == Init /\ [][NextInto]_vars

(***************************************************************************)
(* The caller writes the product of two complex numbers with literals,     *)
(* (a+be1)*(c+de1), as a function or as a text, in an algebra of at most   *)
(* one generator, and calls the translation of it.                         *)
(***************************************************************************)
Literals == (0 .. MaxLit) \X (0 .. MaxLit) \X (0 .. MaxLit) \X (0 .. MaxLit)

\* The text (a+be1)*(c+de1) of four numbers.
ComplexProduct(l) ==
  <<"(">> \o IntText(l[1]) \o <<"+">> \o IntText(l[2]) \o <<"e", "1", ")", "*", "(">>
  \o IntText(l[3]) \o <<"+">> \o IntText(l[4]) \o <<"e", "1", ")">>

ComplexProducts == Built([l \in Literals |-> ComplexProduct(l)])

\* var f = ()=>(a+be1)*(c+de1)
NewFunction ==
  /\ algs /= <<>> /\ Alg.tot <= 1 /\ a = Undefined
  /\ \E l \in Literals :
       /\ a' = Function(ArrowHead \o ComplexProducts[l])
       /\ last' = "Function"
       /\ UNCHANGED <<algs, mulTable2b, b, out, swvars>>

\* var s = "(a+be1)*(c+de1)"
NewText ==
  /\ algs /= <<>> /\ Alg.tot <= 1 /\ a = Undefined
  /\ \E l \in Literals :
       /\ a' = String(ComplexProducts[l])
       /\ last' = "string"
       /\ UNCHANGED <<algs, mulTable2b, b, out, swvars>>

\* out = Alg.inline(a)()
CallInline ==
  /\ a.ty \in {"Function", "string"} /\ out = Undefined
  /\ out' = InlineCall(Alg, a)
  /\ last' = "inline"
  /\ UNCHANGED <<algs, mulTable2b, a, b, swvars>>

NextInline ==
  \/ CallAlgebra
  \/ NewFunction
  \/ NewText
  \/ CallInline

SpecInline == Init /\ [][NextInline]_vars

\* The caller of a wide algebra builds two elements on its blades.
NextWide ==
  \/ CallAlgebraWide
  \/ NewA
  \/ NewB

SpecWide == Init /\ [][NextWide]_vars

(***************************************************************************)
(* The caller builds one element of at most two blades and reads getters   *)
(* of it.                                                                  *)
(***************************************************************************)
MaxPart == 1

\* The arguments (i, u, j, v) of the Coeff calls: two blades and two coefficients.
Parts(A) ==
  {kv \in (DOMAIN A.basis) \X (-MaxPart .. MaxPart) \X (DOMAIN A.basis) \X (-MaxPart .. MaxPart) :
     kv[1] <= kv[3]}

\* var a = Alg.Coeff(i,u,j,v)
NewSum ==
  /\ algs /= <<>> /\ a = Undefined
  /\ \E A \in {Alg} : \E kv \in Parts(A) :
       /\ a' = El(Coeff(A, kv))
       /\ last' = "Coeff"
       /\ UNCHANGED <<algs, mulTable2b, b, out, swvars>>

\* out = out.Dual, on the Dual of a
GetDualOfDual ==
  /\ IsEl(out) /\ last = "Dual"
  /\ out' = El(Dual(Alg, out.c))
  /\ last' = "DualDual"
  /\ UNCHANGED <<algs, mulTable2b, a, b, swvars>>

\* out = a.Inverse
GetInverse ==
  /\ IsEl(a) /\ out = Undefined
  /\ out' = Inverse(Alg, a.c)
  /\ last' = "Inverse"
  /\ UNCHANGED <<algs, mulTable2b, a, b, swvars>>

\* out = a.Mul(a.Inverse)
MulInverse ==
  /\ IsEl(a) /\ out = Undefined
  /\ out' = MulValue(Alg, a.c, Inverse(Alg, a.c))
  /\ last' = "MulInverse"
  /\ UNCHANGED <<algs, mulTable2b, a, b, swvars>>

\* out = a.Div(a)
CallDiv ==
  /\ IsEl(a) /\ out = Undefined
  /\ out' = Div(Alg, a.c, a.c)
  /\ last' = "Div"
  /\ UNCHANGED <<algs, mulTable2b, a, b, swvars>>

NextGetters ==
  \/ CallAlgebra
  \/ NewSum
  \/ GetDual
  \/ GetDualOfDual
  \/ GetInverse
  \/ MulInverse
  \/ CallDiv

SpecGetters == Init /\ [][NextGetters]_vars

(***************************************************************************)
(* The caller builds a second class while it works with the first.         *)
(***************************************************************************)
\* var Alg2 = Algebra(p,q,r)
CallAlgebraAgain ==
  \E s \in Signatures :
    /\ Len(algs) = 1
    /\ algs' = Append(algs, s)
    /\ mulTable2b' = [ty |-> "mulTable2b", of |-> s]
    /\ last' = "Algebra"
    /\ UNCHANGED <<a, b, out, swvars>>

NextTwo ==
  \/ CallAlgebra
  \/ NewA
  \/ GetDual
  \/ CallAlgebraAgain

SpecTwo == Init /\ [][NextTwo]_vars

(***************************************************************************)
(* The caller passes an object of options to Algebra: ganja.js lines       *)
(* 60-68.  A count of the object is a sequence of at most one number (the  *)
(* empty sequence for a count that is not given), metric is an array, the  *)
(* empty one for a metric that is not given (the counts of both are 0; the *)
(* objects here give p or metric).                                         *)
(***************************************************************************)
Options(p, q, r, m) == [ty |-> "options", p |-> p, q |-> q, r |-> r, metric |-> m]

\* p.metric.filter(x=>x==v).length
Count(m, v) == Cardinality({i \in DOMAIN m : m[i] = v})

\* x || y for a count x
OrElse(x, y) == IF x /= <<>> /\ x[1] /= 0 THEN x[1] ELSE y

\* the numbers p, q, r of lines 61-63
Resolve(o) ==
  << IF o.p = <<>> THEN Count(o.metric, 1) ELSE o.p[1],
     OrElse(o.q, Count(o.metric, -1)),
     OrElse(o.r, Count(o.metric, 0)) >>

\* The arrays of at most MaxDim values 1, -1, 0.
Metrics == UNION {[1 .. n -> {1, -1, 0}] : n \in 0 .. MaxDim}

\* { metric: m }
MetricOptions == {Options(<<>>, <<>>, <<>>, m) : m \in Metrics}

\* Objects with a negative count, and objects whose counts are not those of
\* their metric.
InvalidOptions ==
  {Options(<<c[1]>>, <<c[2]>>, <<c[3]>>, <<>>) :
     c \in {<<-1, 0, 0>>, <<0, -1, 0>>, <<0, 0, -1>>, <<2, -1, 0>>, <<1, -1, 0>>, <<-1, 2, 0>>,
            <<1, 1, -1>>, <<-2, 1, 0>>, <<-1, -1, 3>>}}
  \cup {Options(<<2>>, <<>>, <<>>, <<1>>), Options(<<1>>, <<>>, <<>>, <<1, 1>>),
        Options(<<0>>, <<>>, <<>>, <<1, -1>>), Options(<<>>, <<2>>, <<>>, <<1, -1>>),
        Options(<<>>, <<>>, <<1>>, <<1, 0, 0>>), Options(<<3>>, <<>>, <<>>, <<-1, -1, -1>>)}

\* var o = { ... }
NewOptions ==
  /\ algs = <<>> /\ b = Undefined
  /\ \E o \in MetricOptions \cup InvalidOptions :
       /\ b' = o
       /\ last' = "options"
       /\ UNCHANGED <<algs, mulTable2b, a, out, swvars>>

\* The class is built, or Array(2**tot) throws for a length that is a fraction.
Construct(s) ==
  IF s[1] + s[2] + s[3] < 0
  THEN /\ out' = Thrown("RangeError")
       /\ UNCHANGED <<algs, mulTable2b, swvars>>
  ELSE /\ algs' = <<s>>
       /\ mulTable2b' = [ty |-> "mulTable2b", of |-> s]
       /\ UNCHANGED <<out, swvars>>

\* var Alg = Algebra(o)
CallAlgebraOptions ==
  /\ b.ty = "options" /\ algs = <<>> /\ out = Undefined
  /\ Construct(Resolve(b))
  /\ last' = "Algebra"
  /\ UNCHANGED <<a, b, swvars>>

NextOptions ==
  \/ NewOptions
  \/ CallAlgebraOptions

SpecOptions == Init /\ [][NextOptions]_vars

(***************************************************************************)
(* The caller asks for symbolic coefficients, Algebra({p:p,symbolic:true}),*)
(* and stores strings in elements.  No line of Algebra reads               *)
(* options.symbolic: the class extends Float32Array as ever (line 129), and *)
(* a Float32Array converts what is stored in it to a number.  A            *)
(* coefficient is here a number Num(v) or NaN; the generated methods       *)
(* compute on them as on numbers, and a sum with a NaN term is NaN.        *)
(***************************************************************************)
NaN == [ty |-> "NaN"]

\* The number a typed array stores for x: a string of digits is its number,
\* another string is NaN.
ToFloat(x) ==
  IF x.ty /= "string" THEN x
  ELSE IF x.src /= <<>> /\ \A i \in DOMAIN x.src : x.src[i] \in Digits
       THEN Num(DecValue(DigitsOf(x.src), 0))
  ELSE NaN

\* new Element(): super(basis.length), of zeros
NewFloats(A) == [i \in DOMAIN A.basis |-> Num(0)]

\* el[i] = x
SetCoeff(el, i, x) == [el EXCEPT ![i] = ToFloat(x)]

\* The numbers of an element, with 0 in the place of NaN.
Values(el) == [i \in DOMAIN el |-> IF el[i].ty = "number" THEN el[i].v ELSE 0]

\* A cell sign b[y]*this[x] of the row has a NaN factor.
RowNaN(row, tv, bv) ==
  \E xi \in DOMAIN row : row[xi].sg /= 0 /\ (bv[row[xi].y] = NaN \/ tv[row[xi].x] = NaN)

\* res[ri] = <row ri> for the rows of a matrix; num holds the sums of the rows
\* that have no NaN factor.
FloatRows(rows, num, tv, bv) ==
  [ri \in DOMAIN rows |-> IF RowNaN(rows[ri], tv, bv) THEN NaN ELSE Num(num[ri])]

\* res[xi] = b[xi]+this[xi], res[xi] = this[xi]-b[xi]
FloatSum(num, tv, bv) ==
  [xi \in DOMAIN tv |-> IF tv[xi] = NaN \/ bv[xi] = NaN THEN NaN ELSE Num(num[xi])]

\* Add, Sub, Mul and Wedge on the coefficients a Float32Array holds.
FloatAdd(A, tv, bv) == FloatSum(Add(A, Values(tv), Values(bv)), tv, bv)
FloatSub(A, tv, bv) == FloatSum(Sub(A, Values(tv), Values(bv)), tv, bv)
FloatMul(A, tv, bv) == FloatRows(A.gp, Mul(A, Values(tv), Values(bv)), tv, bv)
FloatWedge(A, tv, bv) == FloatRows(A.op, Wedge(A, Values(tv), Values(bv)), tv, bv)

\* var Alg = Algebra({p:p, symbolic:true})
CallAlgebraSymbolic ==
  /\ algs = <<>> /\ out = Undefined
  /\ \E p \in 1 .. MaxDim : Construct(Resolve(Options(<<p>>, <<>>, <<>>, <<>>)))
  /\ last' = "Algebra"
  /\ UNCHANGED <<a, b, swvars>>

\* The element with the string x at blade i and then the string y at blade j.
Symbolic(A, i, x, j, y) == El(SetCoeff(SetCoeff(NewFloats(A), i, String(x)), j, String(y)))

\* var a = new Alg(); a[i] = "a"; a[j] = "b"
NewSymbolicA ==
  /\ algs /= <<>> /\ a = Undefined
  /\ \E A \in {Alg} : \E i, j \in DOMAIN A.basis :
       /\ i <= j
       /\ a' = Symbolic(A, i, <<"a">>, j, <<"b">>)
       /\ last' = "new"
       /\ UNCHANGED <<algs, mulTable2b, b, out, swvars>>

\* var b = new Alg(); b[i] = "c"; b[j] = "d"
NewSymbolicB ==
  /\ algs /= <<>> /\ IsEl(a) /\ b = Undefined
  /\ \E A \in {Alg} : \E i, j \in DOMAIN A.basis :
       /\ i <= j
       /\ b' = Symbolic(A, i, <<"c">>, j, <<"d">>)
       /\ last' = "new"
       /\ UNCHANGED <<algs, mulTable2b, a, out, swvars>>

\* out = a.Add(b), a.Sub(b), a.Mul(b), a.Wedge(b)
SymbolicAdd == Ready /\ Binary("Add", FloatAdd(Alg, a.c, b.c))
SymbolicSub == Ready /\ Binary("Sub", FloatSub(Alg, a.c, b.c))
SymbolicMul == Ready /\ Binary("Mul", FloatMul(Alg, a.c, b.c))
SymbolicWedge == Ready /\ Binary("Wedge", FloatWedge(Alg, a.c, b.c))

NextSymbolic ==
  \/ CallAlgebraSymbolic
  \/ NewSymbolicA
  \/ NewSymbolicB
  \/ SymbolicAdd
  \/ SymbolicSub
  \/ SymbolicMul
  \/ SymbolicWedge

SpecSymbolic == Init /\ [][NextSymbolic]_vars

(***************************************************************************)
(* The caller writes a function of two operators between three names,      *)
(* ()=>a o1 b o2 c, and has it translated without calling the translation. *)
(***************************************************************************)
\* The operators of the products, of the sums and of the comparisons, with the
\* names of their methods.
ChainOps ==
  << <<1, <<"*">>, NameMul>>, <<1, <<"/">>, NameDiv>>,
     <<2, <<"+">>, NameAdd>>, <<2, <<"-">>, NameSub>>,
     <<3, <<"<">>, NameLt>>, <<3, <<">">>, NameGt>>,
     <<3, <<"<", "=">>, NameLte>>, <<3, <<">", "=">>, NameGte>> >>

\* The text a o1 b o2 c.
Chain(o1, o2) == <<"a">> \o o1 \o <<"b">> \o o2 \o <<"c">>

\* var f = ()=>a o1 b o2 c
NewChain ==
  /\ algs /= <<>> /\ a = Undefined
  /\ \E i, j \in DOMAIN ChainOps :
       /\ a' = Function(ArrowHead \o Chain(ChainOps[i][2], ChainOps[j][2]))
       /\ last' = "Function"
       /\ UNCHANGED <<algs, mulTable2b, b, out, swvars>>

\* The texts a**b and a**b**c.
PowChains == { <<"a", "*", "*", "b">>, <<"a", "*", "*", "b", "*", "*", "c">> }

\* var f = ()=>a**b**c
NewPowChain ==
  /\ algs /= <<>> /\ a = Undefined
  /\ \E src \in PowChains :
       /\ a' = Function(ArrowHead \o src)
       /\ last' = "Function"
       /\ UNCHANGED <<algs, mulTable2b, b, out, swvars>>

\* Texts with brackets: a sum in round brackets before and after a product, in
\* brackets within brackets, as the argument of a call, and as an index.
Bracketed ==
  { <<"(", "a", "+", "b", ")", "*", "c">>,
    <<"a", "*", "(", "b", "+", "c", ")">>,
    <<"a", "*", "(", "(", "b", "+", "c", ")", "*", "d", ")">>,
    <<"f", "(", "a", "+", "b", ")", "*", "c">>,
    <<"a", "[", "b", "+", "c", "]", "*", "d">>,
    <<"a", "*", "b", "[", "c", "+", "d", "]">>,
    <<"a", "[", "b", "[", "c", "]", "+", "d", "]">> }

\* var f = ()=>(a+b)*c
NewBracketed ==
  /\ algs /= <<>> /\ a = Undefined
  /\ \E src \in Bracketed :
       /\ a' = Function(ArrowHead \o src)
       /\ last' = "Function"
       /\ UNCHANGED <<algs, mulTable2b, b, out, swvars>>

\* Texts with an operator that has no operand on its left, and with a minus
\* that has one.
Unary ==
  { <<"a", "*", "-", "b">>, <<"-", "a">>, <<"!", "a">>, <<"~", "a">>, <<"a", "*", "!", "b">>,
    <<"!", "(", "a", "+", "b", ")">>, <<"!", "-", "a">>,
    <<"a", "*", "-", "(", "b", "+", "c", ")">>,
    <<"a", "-", "b">>, <<"a", " ", "-", "b">>, <<"(", "a", "+", "b", ")", "-", "c">> }

\* var f = ()=>a*-b
NewUnary ==
  /\ algs /= <<>> /\ a = Undefined
  /\ \E src \in Unary :
       /\ a' = Function(ArrowHead \o src)
       /\ last' = "Function"
       /\ UNCHANGED <<algs, mulTable2b, b, out, swvars>>

\* Texts that are no expression: a string and a comment that do not end, a
\* bracket that is not closed and one that is not opened, and operators
\* without an operand after or before them.
Malformed ==
  { <<"\"", "a">>, <<"a", "+", "\"", "b">>,
    <<"a", "/", "*", "b">>, <<"/", "*", "a">>,
    <<"(", "a", "+", "b">>, <<"a", "*", "(", "b">>,
    <<"a", "+", "b", ")">>, <<")", "a">>,
    <<"a", "+">>, <<"a", "*">>, <<"a", "/">>, <<"a", "-">>, <<"*", "a">>, <<"/", "a">> }

\* var s = a text of Malformed
NewMalformed ==
  /\ algs /= <<>> /\ a = Undefined
  /\ \E src \in Malformed :
       /\ a' = String(src)
       /\ last' = "string"
       /\ UNCHANGED <<algs, mulTable2b, b, out, swvars>>

\* out = Alg.inline(a)
Translate ==
  /\ a.ty \in {"Function", "string"} /\ out = Undefined
  /\ out' = Inline(Alg, a)
  /\ last' = "translated"
  /\ UNCHANGED <<algs, mulTable2b, a, b, swvars>>

NextTranslate ==
  \/ CallAlgebra
  \/ NewChain
  \/ NewPowChain
  \/ NewBracketed
  \/ NewUnary
  \/ NewMalformed
  \/ Translate

SpecTranslate == Init /\ [][NextTranslate]_vars

(***************************************************************************)
(* The service worker: src/examples/sw.js.  The browser installs the       *)
(* worker, activates it and then hands it the fetch events of the pages;   *)
(* every promise of a handler settles in a step of its own.                *)
(***************************************************************************)
\* The entries of a cache that holds the urls of urlsToCache with body v.
Precached(old, v) ==
  [u \in Urls |-> IF u \in urlsToCache THEN Response(200, "basic", v) ELSE old[u]]

\* An earlier version of the worker has left the cache n.
EarlierCache ==
  /\ state = "parsed"
  /\ \E n \in OldNames \cup {CACHE_NAME} :
       /\ ~caches[n].exists
       /\ caches' = [caches EXCEPT ![n] = [exists |-> TRUE, entries |-> Precached(EmptyCache.entries, 1)]]
  /\ UNCHANGED <<algvars, state, deletions, claimed, events, puts>>

\* install: caches.open(CACHE_NAME).then(cache => cache.addAll(...).catch(...))
\*   .then(() => self.skipWaiting()); addAll adds every response or none.
Install ==
  /\ state = "parsed"
  /\ \E ok \in BOOLEAN :
       caches' = [caches EXCEPT ![CACHE_NAME] =
                    [exists |-> TRUE,
                     entries |-> IF ok THEN Precached(caches[CACHE_NAME].entries, 2)
                                 ELSE caches[CACHE_NAME].entries]]
  /\ state' = "installed"
  /\ UNCHANGED <<algvars, deletions, claimed, events, puts>>

\* activate: event.waitUntil(caches.keys()...)
ActivateEvent ==
  /\ state = "installed"
  /\ state' = "keys"
  /\ UNCHANGED <<algvars, caches, deletions, claimed, events, puts>>

\* cacheNames.map(cacheName => { if (cacheName !== CACHE_NAME) return caches.delete(cacheName) })
ToDeleteAll(cacheNames) == cacheNames

ToDelete(cacheNames) == {n \in cacheNames : n /= CACHE_NAME}

\* caches.keys().then(cacheNames => Promise.all(cacheNames.map(...)))
KeysDone ==
  /\ state = "keys"
  /\ LET cacheNames == {CacheOrder[i] : i \in {j \in DOMAIN CacheOrder : caches[CacheOrder[j]].exists}}
     IN  deletions' = [n \in cacheNames |-> IF n \in ToDelete(cacheNames) THEN "pending" ELSE "done"]
  /\ state' = "deleting"
  /\ UNCHANGED <<algvars, caches, claimed, events, puts>>

\* a caches.delete(cacheName) finishes
DeleteDone ==
  /\ state = "deleting"
  /\ \E n \in DOMAIN deletions :
       /\ deletions[n] = "pending"
       /\ caches' = [caches EXCEPT ![n] = NoCache]
       /\ deletions' = [deletions EXCEPT ![n] = "done"]
  /\ UNCHANGED <<algvars, state, claimed, events, puts>>

\* Promise.all(...) is resolved when every promise of the list is.
AllSettled(promises) == \A n \in DOMAIN promises : promises[n] = "done"

\* .then(() => self.clients.claim())
ClaimClients ==
  /\ state = "deleting" /\ AllSettled(deletions)
  /\ claimed' = TRUE
  /\ state' = "claiming"
  /\ UNCHANGED <<algvars, caches, deletions, events, puts>>

\* The promise handed to waitUntil is resolved: the worker is activated.
ActivateDone ==
  /\ state = "claiming"
  /\ state' = "activated"
  /\ UNCHANGED <<algvars, caches, deletions, claimed, events, puts>>

\* caches.match(request): the response of the first cache that holds one.
Match(cs, url) ==
  LET found == {i \in DOMAIN CacheOrder : cs[CacheOrder[i]].exists
                                           /\ cs[CacheOrder[i]].entries[url] /= NoResponse}
  IN  IF found = {} THEN NoResponse ELSE cs[CacheOrder[SetMin(found)]].entries[url]

\* fetch: event.respondWith(caches.match(event.request)...), events in the order
\* they arrive.
FetchEvent ==
  /\ state = "activated"
  /\ \E e \in DOMAIN events : \E u \in Urls :
       /\ events[e].st = "idle"
       /\ \A f \in 1 .. (e - 1) : events[f].st /= "idle"
       /\ events' = [events EXCEPT ![e] = [Idle EXCEPT !.st = "match", !.url = u]]
  /\ UNCHANGED <<algvars, caches, state, deletions, claimed, puts>>

\* .then(response => { if (response) return response; ...; return fetch(fetchRequest)... })
MatchDone ==
  /\ \E e \in DOMAIN events :
       /\ events[e].st = "match"
       /\ LET response == Match(caches, events[e].url)
          IN  events' = [events EXCEPT ![e] =
                IF response /= NoResponse
                THEN [@ EXCEPT !.st = "responded", !.response = response, !.answer = response]
                ELSE [@ EXCEPT !.st = "fetch", !.net = TRUE]]
  /\ UNCHANGED <<algvars, caches, state, deletions, claimed, puts>>

\* A response that is cached by every test.
CacheableAlways(response) == TRUE

\* !(!response || response.status !== 200 || response.type !== 'basic')
Cacheable(response) ==
  response /= NoResponse /\ response.status = 200 /\ response.type = "basic"

\* fetch(fetchRequest).then(response => { if (...) return response;
\*   caches.open(CACHE_NAME).then(...); return response; })
NetResponse ==
  /\ \E e \in DOMAIN events : \E response \in NetResponses :
       /\ events[e].st = "fetch"
       /\ events' = [events EXCEPT ![e] =
                       [@ EXCEPT !.st = "responded", !.network = response, !.answer = response]]
       /\ puts' = IF Cacheable(response)
                  THEN puts \cup {[e |-> e, url |-> events[e].url, response |-> response]}
                  ELSE puts
  /\ UNCHANGED <<algvars, caches, state, deletions, claimed>>

\* fetch(fetchRequest) is rejected: .catch(() => ...)
NetFail ==
  /\ \E e \in DOMAIN events :
       /\ events[e].st = "fetch"
       /\ events' = [events EXCEPT ![e].st = "rematch"]
  /\ UNCHANGED <<algvars, caches, state, deletions, claimed, puts>>

\* return caches.match(event.request)
RematchDone ==
  /\ \E e \in DOMAIN events :
       /\ events[e].st = "rematch"
       /\ events' = [events EXCEPT ![e] =
                       [@ EXCEPT !.st = "responded", !.answer = Match(caches, events[e].url)]]
  /\ UNCHANGED <<algvars, caches, state, deletions, claimed, puts>>

\* caches.open(CACHE_NAME).then(cache => { cache.put(event.request, responseToCache) }):
\* open makes the cache when there is none, and put stores the response or is
\* rejected, which nothing handles.
PutDone ==
  /\ \E p \in puts : \E ok \in BOOLEAN :
       /\ caches' = [caches EXCEPT ![CACHE_NAME] =
                       [exists |-> TRUE,
                        entries |-> IF ok THEN [caches[CACHE_NAME].entries EXCEPT ![p.url] = p.response]
                                    ELSE caches[CACHE_NAME].entries]]
       /\ puts' = puts \ {p}
  /\ UNCHANGED <<algvars, state, deletions, claimed, events>>

NextWorker ==
  \/ EarlierCache
  \/ Install
  \/ ActivateEvent
  \/ KeysDone
  \/ DeleteDone
  \/ ClaimClients
  \/ ActivateDone
  \/ FetchEvent
  \/ MatchDone
  \/ NetResponse
  \/ NetFail
  \/ RematchDone
  \/ PutDone

SpecWorker == Init /\ [][NextWorker]_vars

(***************************************************************************)
(* What a caller reads of a class: the Cayley table describe() prints, the *)
(* matrix the Wedge method is generated from, and the blade of an element  *)
(* that Coeff built on one index.                                          *)
(***************************************************************************)
Cayley(A) == mulTable(A.basis, A.p, A.q, A.r, A.low, A.brm)

WedgeMatrix(A) == op(A.basis, A.grades, mulTable2(A.basis, A.p, A.q, A.r, A.low, A.brm))

GeneratorBlades(A) == {i \in DOMAIN A.basis : Cardinality(A.generators[i]) = 1}

BladeOf(v) == CHOOSE i \in DOMAIN v.c : v.c[i] /= 0

\* The table string with the opposite sign.
Negated(l) == [l EXCEPT !.sg = 0 - l.sg]

\* basis.indexOf(name), as a set: empty when the name is not in the basis.
IndexOf(A, nm) == {i \in DOMAIN A.basis : A.basis[i] = nm}

\* The product of two blades as the product matrix takes it from the table: a
\* sign and the index of a blade; a table string that names no blade of the
\* basis has no row in gp, and the term is dropped (the product is zero).
ZeroBlade == [sg |-> 0, i |-> 0]

BladeMul(A, x, y) ==
  LET c == Cayley(A)[x][y]
  IN  IF c.sg = 0 \/ IndexOf(A, c.ds) = {} THEN ZeroBlade
      ELSE [sg |-> c.sg, i |-> SetMin(IndexOf(A, c.ds))]

\* A signed blade times a sign.
Scaled(sg, t) == IF sg = 0 \/ t.sg = 0 THEN ZeroBlade ELSE [sg |-> sg * t.sg, i |-> t.i]

(***************************************************************************)
(* The basis and the tables of every signature.                            *)
(***************************************************************************)
\* C2: for every signature the basis has 2^tot entries, one for each subset
\* of the generators, ordered by grade (the number of generators) and, within
\* a grade, by the ascending number the index tuple spells.
C2_BasisOrder ==
  last = "Algebra" =>
    LET A == Alg
        n == Cardinality(DOMAIN A.basis)
    IN  /\ n = Pow2(A.tot)
        /\ {A.generators[i] : i \in DOMAIN A.basis} = SUBSET UNION {A.generators[i] : i \in GeneratorBlades(A)}
        /\ Cardinality(GeneratorBlades(A)) = A.tot
        /\ \A i \in 0 .. (n - 2) :
             \/ Cardinality(A.generators[i]) < Cardinality(A.generators[i + 1])
             \/ /\ Cardinality(A.generators[i]) = Cardinality(A.generators[i + 1])
                /\ ToInt32(A.basis[i]) < ToInt32(A.basis[i + 1])

\* C3: in the Cayley table exactly p generators square to +1, exactly q to -1
\* and exactly r to 0.
C3_GeneratorSquares ==
  last = "Algebra" =>
    LET A == Alg
        sq(v) == {i \in GeneratorBlades(A) : Cayley(A)[i][i] = Label(v, <<>>)}
    IN  /\ Cardinality(sq(1)) = A.p
        /\ Cardinality(sq(-1)) = A.q
        /\ Cardinality(sq(0)) = A.r

\* C4: the products of two distinct generators in the two orders are the same
\* blade with opposite signs.
C4_Anticommute ==
  (IsEl(a) /\ IsEl(b)) =>
    LET A == Alg
        x == BladeOf(a)
        y == BladeOf(b)
    IN  (x \in GeneratorBlades(A) /\ y \in GeneratorBlades(A) /\ x /= y) =>
          /\ Cayley(A)[x][y].sg /= 0
          /\ Cayley(A)[y][x] = Negated(Cayley(A)[x][y])

\* C5: the signed geometric product of the table is associative:
\* (x*y)*z = x*(y*z) for the blades x, y of two elements and every generator z.
C5_Associative ==
  (IsEl(a) /\ IsEl(b)) =>
    LET A == Alg
        x == BladeOf(a)
        y == BladeOf(b)
    IN  \A z \in GeneratorBlades(A) :
          LET xy == BladeMul(A, x, y)
              yz == BladeMul(A, y, z)
          IN  Scaled(xy.sg, BladeMul(A, xy.i, z)) = Scaled(yz.sg, BladeMul(A, x, yz.i))

\* C6: with r >= 1, the table entry of two blades is zero exactly when the
\* blades share a null generator (one of the first r generators).
C6_ZeroIffSharedNull ==
  (IsEl(a) /\ IsEl(b) /\ Alg.r >= 1) =>
    LET A == Alg
        x == BladeOf(a)
        y == BladeOf(b)
    IN  (Cayley(A)[x][y].sg = 0) <=>
          (\E g \in A.generators[x] \cap A.generators[y] : g < A.r)

\* C7: the Wedge of two basis blades that share no generator is plus or minus
\* the blade of their generators together, whose grade is the sum of theirs;
\* no blade takes a Wedge term of two blades that share a generator.
C7_WedgeOfBlades ==
  (IsEl(a) /\ IsEl(b)) =>
    LET A == Alg
        x == BladeOf(a)
        y == BladeOf(b)
        os == {o \in DOMAIN A.basis : A.generators[o] = A.generators[x] \cup A.generators[y]}
    IN  IF A.generators[x] \cap A.generators[y] = {}
        THEN \E o \in os :
               LET c == WedgeMatrix(A)[o][x]
               IN  /\ c.sg /= 0
                   /\ c.y = y
                   /\ Cardinality(A.generators[o]) = Cardinality(A.generators[x]) + Cardinality(A.generators[y])
        ELSE \A o \in os : LET c == WedgeMatrix(A)[o][x] IN c.sg = 0 \/ c.y /= y

\* C8: two signatures of the same total dimension have the same Wedge matrix,
\* index for index (read at the blade of every two distinct generators).
C8_WedgeIgnoresMetric ==
  last = "Algebra" =>
    \A s \in (Signatures \cup WideSignatures) \ {algs[1]} :
      (Class(s).tot = Alg.tot) =>
        \A x \in GeneratorBlades(Alg) : \A y \in GeneratorBlades(Alg) \ {x} :
          \A o \in {i \in DOMAIN Alg.basis : Alg.generators[i] = Alg.generators[x] \cup Alg.generators[y]} :
            WedgeMatrix(Alg)[o][x] = WedgeMatrix(Class(s))[o][x]

\* The square of generator g of the signature: the first r generators are null,
\* the next p square to +1 and the last q to -1.
MetricOf(A, g) ==
  LET k == g - (IF A.r = 0 THEN 1 ELSE 0)
  IN  IF k < A.r THEN 0 ELSE IF k < A.r + A.p THEN 1 ELSE -1

RECURSIVE SignProduct(_, _)
SignProduct(A, gs) ==
  IF gs = {} THEN 1
  ELSE LET g == CHOOSE h \in gs : TRUE IN MetricOf(A, g) * SignProduct(A, gs \ {g})

\* The sign of the product of the blades of the generators gx and gy: the parity
\* of the transpositions that sort them times the squares of the shared ones.
ProductSign(A, gx, gy) ==
  LET inv == Cardinality({gh \in gx \X gy : gh[1] > gh[2]})
  IN  (IF inv % 2 = 0 THEN 1 ELSE -1) * SignProduct(A, gx \cap gy)

GpMatrix(A) == gp(A.basis, Cayley(A), mulTable2(A.basis, A.p, A.q, A.r, A.low, A.brm))

\* The rows of the matrix that can hold the term b[y]*this[x]: those of the name
\* under which line 118 files the pair (x,y).
RowsOfPair(A, x, y) ==
  IndexOf(A, gpoKey(Cayley(A), mulTable2(A.basis, A.p, A.q, A.r, A.low, A.brm), x, y).ds)

\* C21: for the blades x of a and y of b, when the Cayley entry of (x,y) is plus
\* or minus basis[o], the term sign*this[x]*b[y] stands in the row of exactly
\* one output component, o; when the entry is zero it stands in no row.
C21_MulSumsCayleyPairs ==
  (IsEl(a) /\ IsEl(b)) =>
    LET A == Alg
        x == BladeOf(a)
        y == BladeOf(b)
        c == Cayley(A)[x][y]
    IN  IF c.sg /= 0
        THEN /\ Cardinality(IndexOf(A, c.ds)) = 1
             /\ RowsOfPair(A, x, y) = IndexOf(A, c.ds)
             /\ \A o \in IndexOf(A, c.ds) : GpMatrix(A)[o][x] = Term(c, y, x)
        ELSE \A o \in RowsOfPair(A, x, y) :
               GpMatrix(A)[o][x].sg = 0 \/ GpMatrix(A)[o][x].y /= y

C10_VeeIsDualOfWedgeOfDuals ==
  last = "Vee" => out.c = Dual(Alg, Wedge(Alg, Dual(Alg, a.c), Dual(Alg, b.c)))

\* The Dual Remap of a class on its names: the index array dr and the sign array
\* ds are those of the class.
DualRemapHolds(A, dr, ds) ==
  /\ {dr[i] : i \in DOMAIN dr} = DOMAIN A.basis
  /\ \A i \in DOMAIN dr :
       /\ dr[dr[i]] = i
       /\ A.generators[dr[i]] = (UNION {A.generators[j] : j \in DOMAIN dr}) \ A.generators[i]
       /\ A.grades[dr[i]] = A.tot - A.grades[i]
       /\ ds[i] \in {1, -1}

\* C11: for every signature, drm is a permutation of the basis indices that is
\* its own inverse and maps each blade to the blade of the complementary
\* generators (grade g to grade tot-g), and every entry of drms is +1 or -1.
C11_DualRemap ==
  (algs /= <<>> /\ a = Undefined /\ b = Undefined) =>
    DualRemapHolds(Alg, drm(Alg.basis), drms(Alg.basis, drm(Alg.basis), Alg.low, Alg.brm))

\* Every coefficient of the element that is not zero is on a blade of grade g.
IsGrade(A, tv, g) == \A i \in DOMAIN tv : tv[i] /= 0 => A.grades[i] = g

\* C12: in Algebra(3,0,0), the Dual of the Dual of a grade-1 element v is -v.
C12_DualTwiceNegates ==
  (last = "DualDual" /\ algs[1] = <<3, 0, 0>> /\ IsGrade(Alg, a.c, 1)) =>
    out.c = Negative(Alg, a.c)

\* The Dual of the Dual of e1 - e2 in Algebra(3,0,0) was read, and is e2 - e1.
C12_Witness ==
  /\ last = "DualDual" /\ algs[1] = <<3, 0, 0>>
  /\ a.c = Coeff(Alg, <<1, 1, 2, -1>>)
  /\ out.c = Coeff(Alg, <<1, -1, 2, 1>>)

\* C16: the translation of a text that is no expression throws a SyntaxError.
C16_MalformedThrowsSyntaxError ==
  (last = "translated" /\ a.ty = "string" /\ a.src \in Malformed) => out = Thrown("SyntaxError")

(***************************************************************************)
(* Options.                                                                *)
(***************************************************************************)
\* C20: once a class is built, no step (an operation on elements, a further
\* call of Algebra) writes a variable that the construction of the class wrote.
C20_NoSharedWrite == [][algs /= <<>> => mulTable2b' = mulTable2b]_vars

\* C19: with symbolic:true the results of Add, Sub, Mul and Wedge on elements
\* that hold strings are string expressions: a coefficient of a sum or a
\* difference with a symbolic operand is a string, and the scalar and the e12
\* coefficients of (a e1 + b e2).Mul(c e1 + d e2) in Algebra(2) are strings
\* (that denote a*c+b*d and a*d-b*c).
C19_SymbolicResultsAreStrings ==
  /\ (last \in {"Add", "Sub"}) =>
       \A i \in DOMAIN out.c : (a.c[i] /= Num(0) \/ b.c[i] /= Num(0)) => out.c[i].ty = "string"
  /\ (last = "Mul" /\ algs[1] = <<2, 0, 0>>
       /\ a = Symbolic(Alg, 1, <<"a">>, 2, <<"b">>) /\ b = Symbolic(Alg, 1, <<"c">>, 2, <<"d">>)) =>
       out.c[0].ty = "string" /\ out.c[3].ty = "string"
  /\ (last = "Wedge" /\ algs[1] = <<2, 0, 0>>
       /\ a = Symbolic(Alg, 1, <<"a">>, 2, <<"b">>) /\ b = Symbolic(Alg, 1, <<"c">>, 2, <<"d">>)) =>
       out.c[3].ty = "string"

\* C17: Algebra called with a negative count, or with counts that are not those
\* of the metric, throws a ConfigurationError and builds no class.
C17_InvalidOptionsThrow ==
  (last = "Algebra" /\ b \in InvalidOptions) =>
    (algs = <<>> /\ out = Thrown("ConfigurationError"))

\* C18: in the class built from { metric: m }, generator number i squares to
\* m[i], for every m of at most MaxDim values.
C18_SquaresFollowMetric ==
  (last = "Algebra" /\ b \in MetricOptions) =>
    \A i \in DOMAIN b.metric : Cayley(Alg)[i][i] = Label(b.metric[i], <<>>)

(***************************************************************************)
(* Inverses.                                                               *)
(***************************************************************************)
\* The number the Inverse getter divides by: this[0] with no generator, else
\* the scalar coefficient of the product of the element with its involutions.
Normalizer(A, tv) == IF A.tot = 0 THEN tv[0] ELSE Inverse(A, tv).d

\* The scalar 1 of the class, as coefficients over d.
IsOne(A, v) ==
  /\ v.ty = "ElementOver" /\ v.d /= 0
  /\ \A i \in DOMAIN A.basis : v.c[i] = (IF i = 0 THEN v.d ELSE 0)

\* C14: for an element a whose normalizer is not zero, a.Mul(a.Inverse) is the
\* scalar 1, in every algebra (here of at most MaxDim generators).
C14_MulInverseIsOne ==
  (last = "MulInverse" /\ Normalizer(Alg, a.c) /= 0) => IsOne(Alg, out)

\* The same product in the algebras that have a generator.
C14_MulInverseIsOneWithGenerators ==
  (last = "MulInverse" /\ Alg.tot > 0 /\ Normalizer(Alg, a.c) /= 0) => IsOne(Alg, out)

\* C15: the Inverse of an element whose normalizer is zero, and the division
\* by it, throw SingularElementError.
C15_SingularThrows ==
  (last \in {"Inverse", "Div"} /\ Normalizer(Alg, a.c) = 0) => out = Thrown("SingularElementError")

CallText(name, x, y) == ElementDot \o name \o <<"(">> \o x \o <<",">> \o y \o <<")">>

\* C13: in the dialect of functions the operator of the higher level is
\* rewritten first: when o1 is a product and o2 a sum or a comparison, or o1 a
\* sum and o2 a comparison, a o1 b o2 c becomes N2(N1(a,b),c), and with the
\* levels the other way round it becomes N1(a,N2(b,c)).
C13_HigherLevelFirst ==
  last = "translated" =>
    \A i, j \in DOMAIN ChainOps :
      (a = Function(ArrowHead \o Chain(ChainOps[i][2], ChainOps[j][2]))) =>
        /\ ChainOps[i][1] < ChainOps[j][1] =>
             out = Function(ArrowHead \o
                     CallText(ChainOps[j][3], CallText(ChainOps[i][3], <<"a">>, <<"b">>), <<"c">>))
        /\ ChainOps[i][1] > ChainOps[j][1] =>
             out = Function(ArrowHead \o
                     CallText(ChainOps[i][3], <<"a">>, CallText(ChainOps[j][3], <<"b">>, <<"c">>)))

\* ()=>a+b*c was translated to ()=>Element.Add(a,Element.Mul(b,c)).
C13_Witness ==
  /\ last = "translated"
  /\ a = Function(ArrowHead \o <<"a", "+", "b", "*", "c">>)
  /\ out = Function(ArrowHead \o CallText(NameAdd, <<"a">>, CallText(NameMul, <<"b">>, <<"c">>)))

\* C24: operators of one level that is read left to right associate to the
\* left: a o1 b o2 c becomes N2(N1(a,b),c); the operator ** associates to the
\* right: a**b**c becomes Pow(a,Pow(b,c)).  Every operator is rewritten once
\* and every operand stands once in the result.
C24_Associativity ==
  last = "translated" =>
    /\ \A i, j \in DOMAIN ChainOps :
         (ChainOps[i][1] = ChainOps[j][1]
            /\ a = Function(ArrowHead \o Chain(ChainOps[i][2], ChainOps[j][2]))) =>
           out = Function(ArrowHead \o
                   CallText(ChainOps[j][3], CallText(ChainOps[i][3], <<"a">>, <<"b">>), <<"c">>))
    /\ (a = Function(ArrowHead \o <<"a", "*", "*", "b", "*", "*", "c">>)) =>
         out = Function(ArrowHead \o CallText(NamePow, <<"a">>, CallText(NamePow, <<"b">>, <<"c">>)))
    /\ (a = Function(ArrowHead \o <<"a", "*", "*", "b">>)) =>
         out = Function(ArrowHead \o CallText(NamePow, <<"a">>, <<"b">>))

\* ()=>a-b+c was translated to ()=>Element.Add(Element.Sub(a,b),c).
C24_Witness ==
  /\ last = "translated"
  /\ a = Function(ArrowHead \o <<"a", "-", "b", "+", "c">>)
  /\ out = Function(ArrowHead \o CallText(NameAdd, CallText(NameSub, <<"a">>, <<"b">>), <<"c">>))

\* ()=>a**b**c was translated to ()=>Element.Pow(a,Element.Pow(b,c)).
C24_WitnessPow ==
  /\ last = "translated"
  /\ a = Function(ArrowHead \o <<"a", "*", "*", "b", "*", "*", "c">>)
  /\ out = Function(ArrowHead \o CallText(NamePow, <<"a">>, CallText(NamePow, <<"b">>, <<"c">>)))

\* The text name(x).
CallText1(name, x) == ElementDot \o name \o <<"(">> \o x \o <<")">>

\* The translation of the function ()=>src is the function ()=>dst.
TranslatedTo(src, dst) ==
  (last = "translated" /\ a = Function(ArrowHead \o src)) => out = Function(ArrowHead \o dst)

\* C25: what stands in round or square brackets is translated on its own, an
\* opening bracket is matched with its closing bracket of the same depth, and
\* the bracketed text is one operand of the operators around it:
\* (a+b)*c becomes Mul((Add(a,b)),c), a*(b+c) becomes Mul(a,(Add(b,c))), and so
\* with brackets within brackets, the argument of a call and an index.
C25_BracketsAreOperands ==
  LET ab == CallText(NameAdd, <<"a">>, <<"b">>)
      bc == CallText(NameAdd, <<"b">>, <<"c">>)
      cd == CallText(NameAdd, <<"c">>, <<"d">>)
  IN  /\ TranslatedTo(<<"(", "a", "+", "b", ")", "*", "c">>,
                       CallText(NameMul, <<"(">> \o ab \o <<")">>, <<"c">>))
      /\ TranslatedTo(<<"a", "*", "(", "b", "+", "c", ")">>,
                       CallText(NameMul, <<"a">>, <<"(">> \o bc \o <<")">>))
      /\ TranslatedTo(<<"a", "*", "(", "(", "b", "+", "c", ")", "*", "d", ")">>,
                       CallText(NameMul, <<"a">>,
                         <<"(">> \o CallText(NameMul, <<"(">> \o bc \o <<")">>, <<"d">>) \o <<")">>))
      /\ TranslatedTo(<<"f", "(", "a", "+", "b", ")", "*", "c">>,
                       CallText(NameMul, <<"f", "(">> \o ab \o <<")">>, <<"c">>))
      /\ TranslatedTo(<<"a", "[", "b", "+", "c", "]", "*", "d">>,
                       CallText(NameMul, <<"a", "[">> \o bc \o <<"]">>, <<"d">>))
      /\ TranslatedTo(<<"a", "*", "b", "[", "c", "+", "d", "]">>,
                       CallText(NameMul, <<"a">>, <<"b", "[">> \o cd \o <<"]">>))
      /\ TranslatedTo(<<"a", "[", "b", "[", "c", "]", "+", "d", "]">>,
                       <<"a", "[">> \o CallText(NameAdd, <<"b", "[", "c", "]">>, <<"d">>) \o <<"]">>)

\* ()=>a*((b+c)*d) was translated to
\* ()=>Element.Mul(a,(Element.Mul((Element.Add(b,c)),d))).
C25_Witness ==
  /\ last = "translated"
  /\ a = Function(ArrowHead \o <<"a", "*", "(", "(", "b", "+", "c", ")", "*", "d", ")">>)
  /\ out = Function(ArrowHead \o
             CallText(NameMul, <<"a">>,
               <<"(">> \o CallText(NameMul, <<"(">> \o CallText(NameAdd, <<"b">>, <<"c">>) \o <<")">>, <<"d">>)
               \o <<")">>))

\* C26: every algebraic literal of the source is rewritten to the call
\* Element.Coeff(k,v) where v is the number before the e and k the position in
\* the basis of the blade its suffix names (e1 without a suffix), and k is an
\* index of the basis.
C26_LiteralIndexIsValid ==
  (last = "inline") =>
    LET tok == Tokenise(SourceText(a))
        bs == Alg.basis
    IN  \A i \in DOMAIN tok :
          (tok[i].ty = 2) =>
            LET k == LiteralIndex(bs, tok[i].tx)
                suffix == IF SplitAfter(tok[i].tx) = <<>> THEN <<"1">> ELSE SplitAfter(tok[i].tx)
            IN  /\ k \in DOMAIN bs
                /\ bs[k] = DigitsOf(suffix)
                /\ RewriteLiterals(bs, tok)[i].tx =
                     CallText(<<"C", "o", "e", "f", "f">>, IntText(k),
                              IntText(DecValue(DigitsOf(SplitBefore(tok[i].tx)), 0)))

\* The examples of C27: a*-b becomes Mul(a,Sub(b)), !a becomes Dual(a), and so
\* for the other prefixes before a name; a minus after an operand is Sub.
C27_UnaryBeforeNames ==
  /\ TranslatedTo(<<"a", "*", "-", "b">>, CallText(NameMul, <<"a">>, CallText1(NameSub, <<"b">>)))
  /\ TranslatedTo(<<"-", "a">>, CallText1(NameSub, <<"a">>))
  /\ TranslatedTo(<<"!", "a">>, CallText1(NameDual, <<"a">>))
  /\ TranslatedTo(<<"~", "a">>, CallText1(NameConjugate, <<"a">>))
  /\ TranslatedTo(<<"a", "*", "!", "b">>, CallText(NameMul, <<"a">>, CallText1(NameDual, <<"b">>)))
  /\ TranslatedTo(<<"!", "(", "a", "+", "b", ")">>,
                  CallText1(NameDual, <<"(">> \o CallText(NameAdd, <<"a">>, <<"b">>) \o <<")">>))
  /\ TranslatedTo(<<"!", "-", "a">>, CallText1(NameDual, CallText1(NameSub, <<"a">>)))
  /\ TranslatedTo(<<"a", "-", "b">>, CallText(NameSub, <<"a">>, <<"b">>))
  /\ TranslatedTo(<<"a", " ", "-", "b">>, CallText(NameSub, <<"a">>, <<"b">>))
  /\ TranslatedTo(<<"(", "a", "+", "b", ")", "-", "c">>,
                  CallText(NameSub, <<"(">> \o CallText(NameAdd, <<"a">>, <<"b">>) \o <<")">>, <<"c">>))

\* C27: an operator without an operand on its left (at the start, after an
\* operator) is a prefix of the sub-expression that follows it, a name or a
\* bracketed expression: a*-b becomes Mul(a,Sub(b)), !a becomes Dual(a),
\* a*-(b+c) becomes Mul(a,Sub((Add(b,c)))); a minus after an operand is Sub.
C27_UnaryPrefix ==
  /\ C27_UnaryBeforeNames
  /\ TranslatedTo(<<"a", "*", "-", "(", "b", "+", "c", ")">>,
                  CallText(NameMul, <<"a">>,
                    CallText1(NameSub, <<"(">> \o CallText(NameAdd, <<"b">>, <<"c">>) \o <<")">>)))

\* The value of a.name(b) without res.
Fresh(name, A, tv, bv) ==
  CASE name = "Add" -> Add(A, tv, bv)
    [] name = "Sub" -> Sub(A, tv, bv)
    [] name = "Mul" -> Mul(A, tv, bv)
    [] name = "Dot" -> Dot(A, tv, bv)
    [] name = "Wedge" -> Wedge(A, tv, bv)
    [] name = "Vee" -> Vee(A, tv, bv)

\* C28: a call a.name(b, res) of Add, Sub, Mul, Dot, Wedge or Vee returns the
\* coefficients of a.name(b), whatever res held and whether or not res is a
\* or b, and leaves the operands that were not passed as res as they were.
C28_ResIsOnlyABuffer ==
  [][(IsEl(a) /\ IsEl(b) /\ out = Undefined /\ IsEl(out')) =>
       /\ out'.c = Fresh(last', Alg, a.c, b.c)
       /\ out'.res /= "this" => a' = a
       /\ out'.res /= "b" => b' = b]_vars

\* The same for Add and Sub alone.
C28_SumsIntoRes ==
  [][(IsEl(a) /\ IsEl(b) /\ out = Undefined /\ IsEl(out') /\ last' \in {"Add", "Sub"}) =>
       /\ out'.c = Fresh(last', Alg, a.c, b.c)
       /\ out'.res /= "this" => a' = a
       /\ out'.res /= "b" => b' = b]_vars

\* The same for a res that is neither operand.
C28_OtherRes ==
  [][(IsEl(a) /\ IsEl(b) /\ out = Undefined /\ IsEl(out') /\ out'.res = "other") =>
       /\ out'.c = Fresh(last', Alg, a.c, b.c)
       /\ a' = a /\ b' = b]_vars

(***************************************************************************)
(* The service worker.                                                     *)
(***************************************************************************)
\* A fetch event whose request had a match is answered with the cached
\* response, and no network request was made for it.
HitIsAnswered ==
  \A e \in DOMAIN events :
    (events[e].st = "responded" /\ events[e].response /= NoResponse) =>
      (events[e].answer = events[e].response /\ ~events[e].net)

\* A fetch event whose request had no match and whose network request was
\* answered is answered with the network response.
MissIsFetched ==
  \A e \in DOMAIN events :
    (events[e].st = "responded" /\ events[e].response = NoResponse
       /\ events[e].network /= NoResponse) =>
      (events[e].answer = events[e].network /\ events[e].net)

\* A handler hands a response to the cache only when it is the network
\* response of its event, with status 200 and type basic.
OnlyGoodPuts ==
  \A p \in puts :
    /\ p.response.status = 200 /\ p.response.type = "basic"
    /\ events[p.e].network = p.response /\ events[p.e].url = p.url

\* Once the worker is activated, an entry of the cache changes only to a
\* response handed to the cache for its url.
WritesAreGoodPuts ==
  \A u \in Urls :
    (state = "activated" /\ caches'[CACHE_NAME].entries[u] /= caches[CACHE_NAME].entries[u]) =>
      /\ caches'[CACHE_NAME].entries[u].status = 200
      /\ caches'[CACHE_NAME].entries[u].type = "basic"
      /\ \E p \in puts : p.url = u /\ p.response = caches'[CACHE_NAME].entries[u]

\* When the network request of an event fails, the event is answered with what
\* the caches hold for its request at that time.
FailureIsRematched ==
  \A e \in DOMAIN events :
    (events[e].st = "rematch" /\ events'[e].st = "responded") =>
      events'[e].answer = Match(caches, events[e].url)

\* C29: a fetch event whose request has a match in the caches is answered with
\* the cached response without a network request; on a miss it is answered with
\* the network response, which is written to the cache only if its status is
\* 200 and its type basic; when the network request fails it is answered with
\* what the caches then hold for the request.
C29_FetchHandler ==
  /\ [](HitIsAnswered /\ MissIsFetched /\ OnlyGoodPuts)
  /\ [][WritesAreGoodPuts /\ FailureIsRematched]_vars

\* The second fetch event, for a url that is not installed, was answered from
\* the cache with the response the first event had fetched and stored.
C29_Witness ==
  /\ events[1].st = "responded" /\ events[1].url = "/examples/data.json"
  /\ events[1].network = Response(200, "basic", 2)
  /\ events[2].st = "responded" /\ events[2].url = "/examples/data.json"
  /\ events[2].response = Response(200, "basic", 2)
  /\ events[2].answer = Response(200, "basic", 2) /\ ~events[2].net

\* C30: when the activate event is over, no cache with a name other than
\* CACHE_NAME exists and the cache CACHE_NAME does, as it was when the event
\* began; clients are claimed only when every deletion has finished.
C30_ActivateCleansOldCaches ==
  /\ [](state = "activated" =>
         (caches[CACHE_NAME].exists /\ \A n \in OldNames : ~caches[n].exists))
  /\ [](claimed => (AllSettled(deletions) /\ \A n \in OldNames : ~caches[n].exists))
  /\ [][(state \in {"keys", "deleting", "claiming"}) => (caches'[CACHE_NAME] = caches[CACHE_NAME])]_vars

\* The worker was activated with clients claimed after it had found the two
\* old caches, and the cache CACHE_NAME still holds the entry it held before
\* the worker was installed.
C30_Witness ==
  /\ state = "activated" /\ claimed
  /\ DOMAIN deletions = OldNames \cup {CACHE_NAME}
  /\ caches[CACHE_NAME].entries["/ganja.js"] = Response(200, "basic", 1)

\* C22: the tokenizer loop ends on the source text of every function and every
\* string handed to inline: every token it removes is non-empty, and the texts
\* of the tokens, one after the other, are the source text.
C22_TokenizerConsumesSource ==
  (last = "translated") =>
    LET tok == Tokenise(SourceText(a))
    IN  /\ \A i \in DOMAIN tok : tok[i].tx /= <<>>
        /\ JoinText(tok) = SourceText(a)

=============================================================================
